---- MODULE Spec2Model ----
(***************************************************************************)
(* A model of the multiscale workflow scripts                              *)
(*   src/bin/Stereo_seq_MOSTA_bin3_multiscale.py                           *)
(*   src/bin/VisiumHD_2um_CRC_multiscale_workflow.py                       *)
(* The two scripts share calc_scale, categorize_with_threshold,            *)
(* _assemble_grid, build_grid_for_group_parallel and the rank aggregation  *)
(* of main line for line; line numbers below are those of the Stereo-seq   *)
(* script.                                                                 *)
(*                                                                         *)
(* Numbers that Python holds as floats are held here as exact rationals    *)
(* [n |-> numerator, d |-> denominator] with d > 0.                        *)
(***************************************************************************)
EXTENDS Integers, Sequences, FiniteSets, TLC

VARIABLES
    \* ---- categorize_with_threshold, called on one row (and on a second
    \* ---- row, to compare two calls)
    cat_pc,          \* "idle" | "input" | "done"
    row,             \* [mean_early, mean_mid, mean_late], each a rational
    alt_row,         \* a second row
    threshold_ratio, \* a rational
    category,        \* the label returned for row
    alt_category,    \* the label returned for alt_row
    \* ---- one calc_scale call
    scale_pc,        \* "idle" | "input" | "done"
    moran,           \* the table perform_pseudo_bulk_analysis returned:
                     \* gene -> I, over the genes that passed the threshold
    scale_args,      \* [res, comp]: the resolution and compactness (rationals)
    scale_out,       \* what calc_scale did: [raised, value]
    \* ---- main, from the multiscale sweep on (line 450)
    pc,              \* the step main is at
    args,            \* [resolutions, compactnesses]: the command line's texts
    resolutions,     \* the parsed --resolutions
    compactnesses,   \* the parsed --compactnesses
    param_grid,      \* the (resolution, compactness) pairs of the sweep
    adata,           \* the dataset: [var_names, i_vals]
    n_jobs,          \* args.n_jobs_multiscale
    started,         \* how many calc_scale tasks the pool has dispatched
    running,         \* the tasks (places in param_grid) now in a worker
    results,         \* results[i]: what task i's calc_scale did
    moran_rows,      \* moran_rows[i]: the rows the analysis returned to task i
    rank_mat,        \* the joined rank table
    max_rank,
    res_rank,        \* per-resolution means
    comp_rank,       \* per-compactness means
    df,              \* res_rank with the band means
    error,           \* the exception that ended main, "" while none
    use_memmap,      \* args.use_memmap
    td,              \* the temporary directory: "none" | "exists" | "removed"
    h5ad,            \* the file td/adata_tmp.h5ad: the dataset written, or NoFile
    worker_ad,       \* worker_ad[i]: the dataset ad of task i's calc_scale
    \* ---- build_grid_for_group_parallel, from "Assemble in original
    \* ---- order" on (line 255), and _assemble_grid
    grid_pc,         \* "idle" | "filter" | "assemble" | "done" | "error"
    ordered_tiles,   \* the tile paths, in the order of the gene list
    grid_cols,       \* cols
    disk,            \* the tile files that exist: path -> image size
    existing_tiles,  \* the tile paths handed to _assemble_grid
    canvas,          \* the figure: [rows, cols, axes], axes[<<r, c>>] a cell
    \* ---- build_grid_for_group_parallel from its entry (line 222), the
    \* ---- render workers, and the two calls main makes (lines 552-578)
    call,            \* 0 before the first call, then 1 or 2
    group_name,      \* group_name of the call
    genes,           \* genes of the call
    gene_lists,      \* the genes main passes to call 1 and to call 2
    top_k,           \* args.top_k
    adata_global,    \* the dataset handed to the workers
    max_workers,     \* args.max_workers
    futures,         \* futures[k]: "pending" | "running" | "done" | "raised"
    collected,       \* the futures as_completed has yielded, in that order
    writers,         \* writers[path]: the workers (<<call, k>>) that wrote path
    dirs,            \* the directories os.makedirs was called for
    grid_files,      \* the grid files savefig wrote: path -> the call that did
    \* ---- strip_yml.py
    strip_pc,        \* "idle" | "start" | "exited"
    argv,            \* sys.argv
    fs,              \* the files: path -> what reading and parsing it gives
    writable,        \* whether the output file can be opened for writing
    stdout,          \* the kinds of line printed, in order
    exit_code,       \* the exit code, -1 while the process runs
    written,         \* the files the utility wrote: path -> environment
    \* ---- a workflow script from its first line to setup_environment
    script,          \* which workflow script runs
    load_pc,         \* the number of statements executed
    thread_args,     \* the --*_threads arguments
    os_environ,      \* os.environ, restricted to the thread-count variables
    sys_modules,     \* the modules imported so far
    env_at_import,   \* env_at_import[m]: os.environ when m was imported
    \* ---- transform_coordinates (lines 44-58)
    coord_pc,        \* "idle" | "start" | "done" | "raised"
    spatial_in,      \* adata.obsm['spatial'] as read from the input file
    spatial          \* adata.obsm['spatial']: the rows <<column 0, column 1>>

catVars == <<cat_pc, row, alt_row, threshold_ratio, category, alt_category>>

scaleVars == <<scale_pc, moran, scale_args, scale_out>>

sweepVars == <<started, running, results, moran_rows, worker_ad>>

tableVars == <<rank_mat, max_rank, res_rank, comp_rank, df>>

cliVars == <<args, resolutions, compactnesses, param_grid, use_memmap>>

tempVars == <<td, h5ad>>

mainVars == <<pc, cliVars, adata, n_jobs, sweepVars, tableVars, error, tempVars>>

renderVars == <<call, group_name, genes, gene_lists, top_k, adata_global, max_workers,
                futures, collected, writers>>

outVars == <<dirs, grid_files>>

gridVars == <<grid_pc, ordered_tiles, grid_cols, disk, existing_tiles, canvas, renderVars,
             outVars>>

stripVars == <<strip_pc, argv, fs, writable, stdout, exit_code, written>>

envVars == <<script, load_pc, thread_args, os_environ, sys_modules, env_at_import>>

coordVars == <<coord_pc, spatial_in, spatial>>

toolVars == <<stripVars, envVars, coordVars>>

vars == <<catVars, scaleVars, mainVars, gridVars, toolVars>>

(***************************************************************************)
(* Bounds of the model                                                     *)
(***************************************************************************)
\* band means range over the whole numbers 1..MaxMean besides the values
\* the documented examples use
MaxMean == 3

\* one calc_scale call: the dataset has the genes 1..MaxGenes and Moran's I
\* takes the values 0..MaxI
MaxGenes == 3

MaxI == 2

\* main: the dataset has the genes 1..NumGenes, the pool has 1..MaxJobs
\* workers, and in the runs of the default command line Moran's I takes the
\* values 1..NumI
NumGenes == 2

NumI == 2

MaxJobs == 2

\* grid assembly: up to MaxTiles tiles on up to MaxCols columns
MaxTiles == 7

MaxCols == 5

\* render lists of at most MaxList genes, pools of at most MaxWorkers workers
MaxList == 2

MaxWorkers == 2

\* environment files of at most MaxDeps dependency entries
MaxDeps == 2

\* the values of args.group_cols in the render runs
RenderCols == {1, 2}

(***************************************************************************)
(* Rational arithmetic (Python float arithmetic, taken exactly)            *)
(***************************************************************************)
Rat(n, d) == [n |-> n, d |-> d]

RLess(a, b) == a.n * b.d < b.n * a.d

REq(a, b) == a.n * b.d = b.n * a.d

RLeq(a, b) == a.n * b.d <= b.n * a.d

RSub(a, b) == [n |-> a.n * b.d - b.n * a.d, d |-> a.d * b.d]

\* a / b for b > 0
RDiv(a, b) == [n |-> a.n * b.d, d |-> a.d * b.n]

(***************************************************************************)
(* Text: a Python str is a sequence of one-character strings               *)
(***************************************************************************)
Digits == <<"0", "1", "2", "3", "4", "5", "6", "7", "8", "9">>

digit_value(c) == (CHOOSE i \in 1..10 : Digits[i] = c) - 1

\* the characters of the column names, in code point order
CharOrder ==
    <<".", "0", "1", "2", "3", "4", "5", "6", "7", "8", "9", "_",
      "a", "c", "d", "e", "i", "k", "l", "m", "n", "o", "p", "r", "s", "t", "y">>

char_code(c) == CHOOSE i \in 1..Len(CharOrder) : CharOrder[i] = c

\* a < b for two str, as Python compares them
text_less(a, b) ==
    \E k \in 1..(Len(b)) :
        /\ \A j \in 1..(k - 1) : j <= Len(a) /\ a[j] = b[j]
        /\ \/ Len(a) = k - 1
           \/ Len(a) >= k /\ char_code(a[k]) < char_code(b[k])

RECURSIVE split(_, _)
\* text.split(sep)
split(text, sep) ==
    IF \A i \in 1..Len(text) : text[i] # sep
    THEN <<text>>
    ELSE LET k == CHOOSE i \in 1..Len(text) :
                     text[i] = sep /\ \A j \in 1..(i - 1) : text[j] # sep
         IN  <<SubSeq(text, 1, k - 1)>> \o split(SubSeq(text, k + 1, Len(text)), sep)

RECURSIVE digits_value(_)
digits_value(ds) ==
    IF ds = <<>> THEN 0
    ELSE digits_value(SubSeq(ds, 1, Len(ds) - 1)) * 10 + digit_value(ds[Len(ds)])

RECURSIVE pow10(_)
pow10(k) == IF k = 0 THEN 1 ELSE 10 * pow10(k - 1)

\* float(x) of a decimal literal "ddd" or "ddd.ddd"
float(token) ==
    LET parts == split(token, ".")
    IN  IF Len(parts) = 1
        THEN Rat(digits_value(parts[1]), 1)
        ELSE Rat(digits_value(parts[1] \o parts[2]), pow10(Len(parts[2])))

RECURSIVE int_str(_)
\* str(n) of an int n >= 0
int_str(n) ==
    IF n < 10 THEN <<Digits[n + 1]>> ELSE int_str(n \div 10) \o <<Digits[(n % 10) + 1]>>

RECURSIVE frac_digits(_, _)
\* the decimal digits of rem / d, 0 <= rem < d, for a fraction that ends
frac_digits(rem, d) ==
    IF rem = 0 THEN <<>>
    ELSE <<Digits[((rem * 10) \div d) + 1]>> \o frac_digits((rem * 10) % d, d)

\* f"{x}" of a float x >= 0: the whole part, a point, and the fraction
\* digits, "0" when the float is whole (2.0 -> "2.0", 0.5 -> "0.5")
float_str(x) ==
    LET whole == x.n \div x.d
        rem   == x.n % x.d
    IN  int_str(whole) \o <<".">> \o (IF rem = 0 THEN <<"0">> ELSE frac_digits(rem, x.d))

\* [float(x) for x in arg.split(',')]
float_list(arg) ==
    LET toks == split(arg, ",") IN [i \in 1..Len(toks) |-> float(toks[i])]

\* f"r{r}_c{c}"
scale_id(r, c) == <<"r">> \o float_str(r) \o <<"_", "c">> \o float_str(c)

\* 'rank_' + scale_id
rank_column(sid) == <<"r", "a", "n", "k", "_">> \o sid

\* f"res_{r}"
res_column(r) == <<"r", "e", "s", "_">> \o float_str(r)

\* f"comp_{c}"
comp_column(c) == <<"c", "o", "m", "p", "_">> \o float_str(c)

(***************************************************************************)
(* Tables (pandas DataFrame): the index is a set of genes, the columns a   *)
(* sequence of names, data[name][gene] the cell                            *)
(***************************************************************************)
Range(seq) == {seq[i] : i \in 1..Len(seq)}

\* a missing cell
NaN == -1

\* pd.DataFrame()
EmptyFrame == [index |-> {}, columns |-> <<>>, data |-> <<>>]

\* df.empty: no rows or no columns
empty(t) == t.index = {} \/ t.columns = <<>>

(***************************************************************************)
(* calc_scale                                                              *)
(***************************************************************************)
RECURSIVE sorted_values(_, _)
\* the values of a over the genes dom, ascending
sorted_values(a, dom) ==
    IF dom = {} THEN <<>>
    ELSE LET g == CHOOSE g \in dom : \A h \in dom : a[g] <= a[h]
         IN  <<a[g]>> \o sorted_values(a, dom \ {g})

rankdata_max(a) ==
    LET srt == sorted_values(a, DOMAIN a)
    IN  [g \in DOMAIN a |->
            CHOOSE i \in 1..Len(srt) :
                srt[i] = a[g] /\ \A j \in (i + 1)..Len(srt) : srt[j] # a[g]]

\* scipy.stats.rankdata(a, method='min'): each value gets the 1-based place
\* of its first occurrence among the sorted values
rankdata_zero_based(a) ==
    LET srt == sorted_values(a, DOMAIN a)
    IN  [g \in DOMAIN a |->
            (CHOOSE i \in 1..Len(srt) :
                srt[i] = a[g] /\ \A j \in 1..(i - 1) : srt[j] # a[g]) - 1]

rankdata_min(a) ==
    LET srt == sorted_values(a, DOMAIN a)
    IN  [g \in DOMAIN a |->
            CHOOSE i \in 1..Len(srt) :
                srt[i] = a[g] /\ \A j \in 1..(i - 1) : srt[j] # a[g]]

calc_scale_ascending(m, sid) ==
    IF DOMAIN m = {}
    THEN [raised |-> FALSE, value |-> EmptyFrame]
    ELSE LET name == rank_column(sid)
         IN  [raised |-> FALSE,
              value  |-> [index   |-> DOMAIN m,
                          columns |-> <<name>>,
                          data    |-> [c \in {name} |-> rankdata_min(m)]]]

calc_scale_max_ties(m, sid) ==
    IF DOMAIN m = {}
    THEN [raised |-> FALSE, value |-> EmptyFrame]
    ELSE LET name == rank_column(sid)
         IN  [raised |-> FALSE,
              value  |-> [index   |-> DOMAIN m,
                          columns |-> <<name>>,
                          data    |-> [c \in {name} |->
                                         rankdata_max([g \in DOMAIN m |-> 0 - m[g]])]]]

calc_scale_no_guard(m, sid) ==
    IF DOMAIN m = {}
    THEN [raised |-> TRUE, value |-> EmptyFrame]
    ELSE LET name == rank_column(sid)
         IN  [raised |-> FALSE,
              value  |-> [index   |-> DOMAIN m,
                          columns |-> <<name>>,
                          data    |-> [c \in {name} |->
                                         rankdata_min([g \in DOMAIN m |-> 0 - m[g]])]]]

\* calc_scale from the table m the analysis returned (lines 101-107):
\* an empty m gives pd.DataFrame(); otherwise the one column
\* 'rank_' + scale_id = rankdata(-moran['I'], method='min') over m's genes
calc_scale(m, sid) ==
    IF DOMAIN m = {}
    THEN [raised |-> FALSE, value |-> EmptyFrame]
    ELSE LET name == rank_column(sid)
         IN  [raised |-> FALSE,
              value  |-> [index   |-> DOMAIN m,
                          columns |-> <<name>>,
                          data    |-> [c \in {name} |->
                                         rankdata_min([g \in DOMAIN m |-> 0 - m[g]])]]]

\* the tables the analysis can return for a dataset with the genes in
\* var_names: any subset of the genes (those passing moranI_threshold),
\* each with a value of I
MoranResults(var_names, i_vals) ==
    UNION {[sub -> i_vals] : sub \in SUBSET var_names}

NoResult == [raised |-> FALSE, value |-> EmptyFrame]

(***************************************************************************)
(* The parts of the state a specification does not exercise                *)
(***************************************************************************)
CatIdle ==
    /\ cat_pc = "idle"
    /\ row = [mean_early |-> Rat(1, 1), mean_mid |-> Rat(1, 1), mean_late |-> Rat(1, 1)]
    /\ alt_row = row
    /\ threshold_ratio = Rat(93, 100)
    /\ category = "none"
    /\ alt_category = "none"

ScaleIdle ==
    /\ scale_pc = "idle"
    /\ moran = <<>>
    /\ scale_args = [res |-> Rat(2, 1), comp |-> Rat(5, 10)]
    /\ scale_out = NoResult

\* adata.obs['Segment'] as main's own segmentation left it (line 417)
MainSegment == <<"m", "a", "i", "n">>

\* no file at a path, and no dataset in a worker
NoFile == [exists |-> FALSE]

NoAd == [loaded |-> FALSE]

MainAtRest ==
    /\ pc = "idle"
    /\ args = [resolutions |-> <<"2">>, compactnesses |-> <<"1">>]
    /\ resolutions = <<>>
    /\ compactnesses = <<>>
    /\ param_grid = <<>>
    /\ adata = [var_names |-> {}, i_vals |-> {}, segment |-> MainSegment]
    /\ n_jobs = 1
    /\ started = 0
    /\ running = {}
    /\ results = <<>>
    /\ moran_rows = <<>>
    /\ rank_mat = EmptyFrame
    /\ max_rank = 0
    /\ res_rank = EmptyFrame
    /\ comp_rank = EmptyFrame
    /\ df = EmptyFrame
    /\ error = ""
    /\ worker_ad = <<>>

MainIdle ==
    /\ MainAtRest
    /\ use_memmap = FALSE
    /\ td = "none"
    /\ h5ad = NoFile

\* an axes cell that shows no image (ax.axis('off') only)
Blank == [shown |-> FALSE]

NoCanvas == [rows |-> 0, cols |-> 0, axes |-> <<>>]

\* adata_global=None
NoData == [none |-> TRUE, var_names |-> {}]

RenderIdle ==
    /\ call = 0
    /\ group_name = <<>>
    /\ genes = <<>>
    /\ gene_lists = <<>>
    /\ top_k = 10
    /\ adata_global = NoData
    /\ max_workers = 6
    /\ futures = <<>>
    /\ collected = <<>>
    /\ writers = <<>>

GridIdle ==
    /\ grid_pc = "idle"
    /\ ordered_tiles = <<>>
    /\ grid_cols = 1
    /\ disk = <<>>
    /\ existing_tiles = <<>>
    /\ canvas = NoCanvas
    /\ dirs = {}
    /\ grid_files = <<>>
    /\ RenderIdle

StripIdle ==
    /\ strip_pc = "idle"
    /\ argv = <<>>
    /\ fs = <<>>
    /\ writable = TRUE
    /\ stdout = <<>>
    /\ exit_code = -1
    /\ written = <<>>

EnvIdle ==
    /\ script = "none"
    /\ load_pc = 0
    /\ thread_args = <<>>
    /\ os_environ = <<>>
    /\ sys_modules = {}
    /\ env_at_import = <<>>

CoordIdle ==
    /\ coord_pc = "idle"
    /\ spatial_in = <<>>
    /\ spatial = <<>>

ToolIdle == StripIdle /\ EnvIdle /\ CoordIdle

ScaleInit ==
    /\ scale_pc = "input"
    /\ moran \in MoranResults(1..MaxGenes, 0..MaxI)
    /\ scale_args \in [res : {Rat(2, 1), Rat(16, 1), Rat(250, 1)},
                       comp : {Rat(5, 10), Rat(1, 1)}]
    /\ scale_out = NoResult

\* one call calc_scale(adata, f"r{r}_c{c}", r, c, ...)
CalcScale ==
    /\ scale_pc = "input"
    /\ scale_out' = calc_scale(moran, scale_id(scale_args.res, scale_args.comp))
    /\ scale_pc' = "done"
    /\ UNCHANGED <<moran, scale_args>>
    /\ UNCHANGED <<catVars, mainVars, gridVars, toolVars>>

ScaleNext == CalcScale

ScaleSpecInit == ScaleInit /\ CatIdle /\ MainIdle /\ GridIdle /\ ToolIdle

SpecScale == ScaleSpecInit /\ [][ScaleNext]_vars


(***************************************************************************)
(* main: the sweep and the rank aggregation (lines 450-503)                *)
(***************************************************************************)
\* list(itertools.product(rs, cs))
product(rs, cs) ==
    LET nc == Len(cs)
    IN  [i \in 1..(Len(rs) * nc) |->
            [r |-> rs[((i - 1) \div nc) + 1], c |-> cs[((i - 1) % nc) + 1]]]

RECURSIVE flatten(_)
flatten(seqs) == IF seqs = <<>> THEN <<>> ELSE Head(seqs) \o flatten(Tail(seqs))

concat_left(tables) ==
    LET idx   == tables[1].index
        cols  == flatten([i \in 1..Len(tables) |-> tables[i].columns])
        of(c) == CHOOSE i \in 1..Len(tables) : c \in Range(tables[i].columns)
    IN  [index   |-> idx,
         columns |-> cols,
         data    |-> [c \in Range(cols) |->
                        [g \in idx |-> IF g \in tables[of(c)].index
                                       THEN tables[of(c)].data[c][g]
                                       ELSE NaN]]]

\* pd.concat(tables, axis=1, join='outer') of a non-empty list: the union
\* of the indexes, the columns side by side, NaN where a table has no row
concat(tables) ==
    LET idx   == UNION {tables[i].index : i \in 1..Len(tables)}
        cols  == flatten([i \in 1..Len(tables) |-> tables[i].columns])
        of(c) == CHOOSE i \in 1..Len(tables) : c \in Range(tables[i].columns)
    IN  [index   |-> idx,
         columns |-> cols,
         data    |-> [c \in Range(cols) |->
                        LET t == tables[of(c)]
                        IN  [g \in idx |-> IF g \in t.index THEN t.data[c][g] ELSE NaN]]]

\* the cells of a table that are not NaN
cells(t) == {t.data[c][g] : c \in Range(t.columns), g \in t.index} \ {NaN}

\* int(rank_mat.max().max()): the maximum over the cells, NaN skipped
table_max(t) == CHOOSE v \in cells(t) : \A w \in cells(t) : w <= v

fillna_no_increment(t, v) ==
    [t EXCEPT !.data = [c \in DOMAIN t.data |->
                           [g \in t.index |-> IF t.data[c][g] = NaN THEN v - 1
                                              ELSE t.data[c][g]]]]

\* t.fillna(v)
fillna(t, v) ==
    [t EXCEPT !.data = [c \in DOMAIN t.data |->
                           [g \in t.index |-> IF t.data[c][g] = NaN THEN v
                                              ELSE t.data[c][g]]]]

RECURSIVE sorted_texts(_)
\* the texts of a set, ascending
sorted_texts(ts) ==
    IF ts = {} THEN <<>>
    ELSE LET t == CHOOSE t \in ts : \A u \in ts \ {t} : text_less(t, u)
         IN  <<t>> \o sorted_texts(ts \ {t})

\* t.sort_index(axis=1): the columns in ascending order of their names
sort_columns(t) == [t EXCEPT !.columns = sorted_texts(Range(t.columns))]

\* lines 477-480 on a list of rank tables: concat, fillna(max + 1), sort
aggregate(tables) ==
    LET joined_tables == concat(tables)
    IN  sort_columns(fillna(joined_tables, table_max(joined_tables) + 1))

RECURSIVE sum_cells(_, _, _)
sum_cells(t, cols, g) ==
    IF cols = <<>> THEN 0 ELSE t.data[Head(cols)][g] + sum_cells(t, Tail(cols), g)

\* t[cols].mean(axis=1) for columns that hold numbers
row_means(t, cols) == [g \in t.index |-> Rat(sum_cells(t, cols, g), Len(cols))]

RAdd(a, b) == [n |-> a.n * b.d + b.n * a.d, d |-> a.d * b.d]

RECURSIVE rsum_cells(_, _, _)
rsum_cells(t, cols, g) ==
    IF cols = <<>> THEN Rat(0, 1)
    ELSE RAdd(t.data[Head(cols)][g], rsum_cells(t, Tail(cols), g))

\* t[cols].mean(axis=1) for columns that hold means
row_rmeans(t, cols) ==
    [g \in t.index |->
        LET sm == rsum_cells(t, cols, g) IN Rat(sm.n, sm.d * Len(cols))]

\* t[cols] raises KeyError unless every name is a column of t
has_columns(t, cols) == \A i \in 1..Len(cols) : cols[i] \in Range(t.columns)

\* the columns of one resolution: [f"rank_r{r}_c{c}" for c in compactnesses]
cols_of_resolution(r) ==
    [j \in 1..Len(compactnesses) |-> rank_column(scale_id(r, compactnesses[j]))]

\* the columns of one compactness: [f"rank_r{r}_c{c}" for r in resolutions]
cols_of_compactness(c) ==
    [j \in 1..Len(resolutions) |-> rank_column(scale_id(resolutions[j], c))]

early_cols ==
    << <<"r", "e", "s", "_", "2">>, <<"r", "e", "s", "_", "8">>,
       <<"r", "e", "s", "_", "1", "6">> >>

mid_cols ==
    << <<"r", "e", "s", "_", "3", "0">>, <<"r", "e", "s", "_", "5", "0">>,
       <<"r", "e", "s", "_", "1", "0", "0">> >>

late_cols ==
    << <<"r", "e", "s", "_", "2", "5", "0">>, <<"r", "e", "s", "_", "5", "0", "0">> >>

mean_early_col == <<"m", "e", "a", "n", "_", "e", "a", "r", "l", "y">>

mean_mid_col == <<"m", "e", "a", "n", "_", "m", "i", "d">>

mean_late_col == <<"m", "e", "a", "n", "_", "l", "a", "t", "e">>

\* the tasks whose calc_scale has returned
finished == (1..started) \ running

\* the pool starts the next task of param_grid when a worker is free
StartWorker ==
    /\ pc = "sweep"
    /\ started < Len(param_grid)
    /\ Cardinality(running) < n_jobs
    /\ started' = started + 1
    /\ running' = running \cup {started + 1}
    /\ UNCHANGED <<pc, cliVars, adata, n_jobs, results, moran_rows, worker_ad, tableVars,
                   error, tempVars>>
    /\ UNCHANGED <<catVars, scaleVars, gridVars, toolVars>>

\* lines 65-68: ad = sc.read_h5ad(adata_path) if adata_path else adata.copy()
load_ad(data, path_given, file) == IF path_given THEN file ELSE data

\* SPIX.sp.segment_image(ad, ..., target_segment_um=res, compactness=comp):
\* what it leaves in the dataset it is given
segment_image(ad, res, comp) == [ad EXCEPT !.segment = scale_id(res, comp)]

FinishWorker_in_place ==
    /\ pc = "sweep"
    /\ \E i \in running :
          \E m \in MoranResults(adata.var_names, adata.i_vals) :
             /\ adata' = segment_image(adata, param_grid[i].r, param_grid[i].c)
             /\ worker_ad' = [worker_ad EXCEPT ![i] = adata']
             /\ results' = [results EXCEPT
                               ![i] = calc_scale(m, scale_id(param_grid[i].r, param_grid[i].c))]
             /\ moran_rows' = [moran_rows EXCEPT ![i] = Cardinality(DOMAIN m)]
             /\ running' = running \ {i}
    /\ UNCHANGED <<pc, cliVars, n_jobs, started, tableVars, error, tempVars>>
    /\ UNCHANGED <<catVars, scaleVars, gridVars, toolVars>>

\* a worker's calc_scale(adata, f"r{r}_c{c}", r, c, adata_path, ...)
\* returns: it loaded or copied the dataset (read_h5ad raises when the file
\* is not there), segmented its ad, and the analysis it called returned
\* some table m for that dataset
FinishWorker ==
    /\ pc = "sweep"
    /\ \E i \in running :
          LET ad == load_ad(adata, use_memmap, h5ad)
          IN  IF ad = NoFile
              THEN /\ results' = [results EXCEPT
                                     ![i] = [raised |-> TRUE, value |-> EmptyFrame]]
                   /\ moran_rows' = [moran_rows EXCEPT ![i] = -1]
                   /\ running' = running \ {i}
                   /\ UNCHANGED worker_ad
              ELSE \E m \in MoranResults(ad.var_names, ad.i_vals) :
                      /\ worker_ad' = [worker_ad EXCEPT
                                          ![i] = segment_image(ad, param_grid[i].r,
                                                               param_grid[i].c)]
                      /\ results' = [results EXCEPT
                                        ![i] = calc_scale(m, scale_id(param_grid[i].r,
                                                                      param_grid[i].c))]
                      /\ moran_rows' = [moran_rows EXCEPT ![i] = Cardinality(DOMAIN m)]
                      /\ running' = running \ {i}
    /\ UNCHANGED <<pc, cliVars, adata, n_jobs, started, tableVars, error, tempVars>>
    /\ UNCHANGED <<catVars, scaleVars, gridVars, toolVars>>

\* a worker's calc_scale raises: the external analysis it calls (lines
\* 65-99) failed; the task has no table (moran_rows is -1)
WorkerRaises ==
    /\ pc = "sweep"
    /\ \E i \in running :
          /\ results' = [results EXCEPT ![i] = [raised |-> TRUE, value |-> EmptyFrame]]
          /\ moran_rows' = [moran_rows EXCEPT ![i] = -1]
          /\ running' = running \ {i}
    /\ UNCHANGED <<pc, cliVars, adata, n_jobs, started, worker_ad, tableVars, error, tempVars>>
    /\ UNCHANGED <<catVars, scaleVars, gridVars, toolVars>>

SweepReturn_partial ==
    /\ pc = "sweep"
    /\ started = Len(param_grid)
    /\ running = {}
    /\ pc' = "concat"
    /\ UNCHANGED <<cliVars, adata, n_jobs, sweepVars, tableVars, error, tempVars>>
    /\ UNCHANGED <<catVars, scaleVars, gridVars, toolVars>>

\* Parallel(...)(...) returns the list of results once every task is done;
\* an exception of a task is raised again in main, as soon as the pool
\* sees it: tasks not yet done are dropped
SweepReturn ==
    /\ pc = "sweep"
    /\ \/ started = Len(param_grid) /\ running = {}
       \/ \E i \in 1..Len(param_grid) : results[i].raised
    /\ IF \E i \in 1..Len(param_grid) : results[i].raised
       THEN /\ pc' = "error"
            /\ error' = "worker"
            /\ UNCHANGED tempVars
       ELSE /\ pc' = "concat"
            /\ error' = error
            \* lines 471-472: shutil.rmtree(td)
            /\ IF use_memmap
               THEN td' = "removed" /\ h5ad' = NoFile
               ELSE UNCHANGED tempVars
    /\ UNCHANGED <<cliVars, adata, n_jobs, sweepVars, tableVars>>
    /\ UNCHANGED <<catVars, scaleVars, gridVars, toolVars>>

\* rank_tables = [df for df in results if not df.empty]
rank_tables ==
    SelectSeq([i \in 1..Len(param_grid) |-> results[i].value], LAMBDA t : ~empty(t))

ConcatRankTables_lenient ==
    /\ pc = "concat"
    /\ rank_mat' = IF rank_tables = <<>> THEN EmptyFrame ELSE concat(rank_tables)
    /\ pc' = IF rank_tables = <<>> THEN "done" ELSE "fill"
    /\ UNCHANGED <<cliVars, adata, n_jobs, sweepVars, max_rank, res_rank, comp_rank, df,
                   error, tempVars>>
    /\ UNCHANGED <<catVars, scaleVars, gridVars, toolVars>>

\* rank_mat = pd.concat(rank_tables, axis=1, join='outer'), which raises
\* ValueError for an empty list
ConcatRankTables ==
    /\ pc = "concat"
    /\ IF rank_tables = <<>>
       THEN /\ pc' = "error"
            /\ error' = "ValueError"
            /\ UNCHANGED rank_mat
       ELSE /\ rank_mat' = concat(rank_tables)
            /\ pc' = "fill"
            /\ UNCHANGED error
    /\ UNCHANGED <<cliVars, adata, n_jobs, sweepVars, max_rank, res_rank, comp_rank, df,
                   tempVars>>
    /\ UNCHANGED <<catVars, scaleVars, gridVars, toolVars>>

\* max_rank = int(rank_mat.max().max()); rank_mat = rank_mat.fillna(max_rank + 1)
FillSentinel ==
    /\ pc = "fill"
    /\ max_rank' = table_max(rank_mat)
    /\ rank_mat' = fillna(rank_mat, table_max(rank_mat) + 1)
    /\ pc' = "sort"
    /\ UNCHANGED <<cliVars, adata, n_jobs, sweepVars, res_rank, comp_rank, df, error,
                   tempVars>>
    /\ UNCHANGED <<catVars, scaleVars, gridVars, toolVars>>

\* rank_mat.sort_index(axis=1, inplace=True)
SortColumns ==
    /\ pc = "sort"
    /\ rank_mat' = sort_columns(rank_mat)
    /\ pc' = "res_rank"
    /\ UNCHANGED <<cliVars, adata, n_jobs, sweepVars, max_rank, res_rank, comp_rank, df, error,
                   tempVars>>
    /\ UNCHANGED <<catVars, scaleVars, gridVars, toolVars>>

\* res_rank[f"res_{r}"] = rank_mat[cols].mean(axis=1) for r in resolutions;
\* rank_mat[cols] raises KeyError when a column is not in rank_mat
ResRank ==
    /\ pc = "res_rank"
    /\ IF \A i \in 1..Len(resolutions) : has_columns(rank_mat, cols_of_resolution(resolutions[i]))
       THEN /\ res_rank' =
                 [index   |-> rank_mat.index,
                  columns |-> [i \in 1..Len(resolutions) |-> res_column(resolutions[i])],
                  data    |-> [c \in {res_column(resolutions[i]) : i \in 1..Len(resolutions)} |->
                                 LET i == CHOOSE i \in 1..Len(resolutions) :
                                              res_column(resolutions[i]) = c
                                 IN  row_means(rank_mat, cols_of_resolution(resolutions[i]))]]
            /\ pc' = "comp_rank"
            /\ UNCHANGED error
       ELSE /\ pc' = "error"
            /\ error' = "KeyError"
            /\ UNCHANGED res_rank
    /\ UNCHANGED <<cliVars, adata, n_jobs, sweepVars, rank_mat, max_rank, comp_rank, df,
                   tempVars>>
    /\ UNCHANGED <<catVars, scaleVars, gridVars, toolVars>>

\* comp_rank[f"comp_{c}"] = rank_mat[cols].mean(axis=1) for c in compactnesses
CompRank ==
    /\ pc = "comp_rank"
    /\ IF \A j \in 1..Len(compactnesses) :
             has_columns(rank_mat, cols_of_compactness(compactnesses[j]))
       THEN /\ comp_rank' =
                 [index   |-> rank_mat.index,
                  columns |-> [j \in 1..Len(compactnesses) |-> comp_column(compactnesses[j])],
                  data    |-> [c \in {comp_column(compactnesses[j]) : j \in 1..Len(compactnesses)} |->
                                 LET j == CHOOSE j \in 1..Len(compactnesses) :
                                              comp_column(compactnesses[j]) = c
                                 IN  row_means(rank_mat, cols_of_compactness(compactnesses[j]))]]
            /\ pc' = "bands"
            /\ UNCHANGED error
       ELSE /\ pc' = "error"
            /\ error' = "KeyError"
            /\ UNCHANGED comp_rank
    /\ UNCHANGED <<cliVars, adata, n_jobs, sweepVars, rank_mat, max_rank, res_rank, df,
                   tempVars>>
    /\ UNCHANGED <<catVars, scaleVars, gridVars, toolVars>>

\* df = res_rank.copy(); df['mean_early'] = df[early_cols].mean(axis=1), and
\* the same for mid and late; df[cols] raises KeyError when a name of cols
\* is not a column of df
BandMeans ==
    /\ pc = "bands"
    /\ IF /\ has_columns(res_rank, early_cols)
          /\ has_columns(res_rank, mid_cols)
          /\ has_columns(res_rank, late_cols)
       THEN /\ df' =
                 [index   |-> res_rank.index,
                  columns |-> res_rank.columns \o <<mean_early_col, mean_mid_col, mean_late_col>>,
                  data    |-> [c \in Range(res_rank.columns)
                                        \cup {mean_early_col, mean_mid_col, mean_late_col} |->
                                 CASE c = mean_early_col -> row_rmeans(res_rank, early_cols)
                                   [] c = mean_mid_col   -> row_rmeans(res_rank, mid_cols)
                                   [] c = mean_late_col  -> row_rmeans(res_rank, late_cols)
                                   [] OTHER              -> res_rank.data[c]]]
            /\ pc' = "categorize"
            /\ UNCHANGED error
       ELSE /\ pc' = "error"
            /\ error' = "KeyError"
            /\ UNCHANGED df
    /\ UNCHANGED <<cliVars, adata, n_jobs, sweepVars, rank_mat, max_rank, res_rank, comp_rank,
                   tempVars>>
    /\ UNCHANGED <<catVars, scaleVars, gridVars, toolVars>>

MainNext ==
    \/ StartWorker
    \/ FinishWorker
    \/ WorkerRaises
    \/ SweepReturn
    \/ ConcatRankTables
    \/ FillSentinel
    \/ SortColumns
    \/ ResRank
    \/ CompRank
    \/ BandMeans

\* --resolutions, default '2,8,16,30,50,100,250,500' (line 309)
DefaultResolutions ==
    <<"2", ",", "8", ",", "1", "6", ",", "3", "0", ",", "5", "0", ",",
      "1", "0", "0", ",", "2", "5", "0", ",", "5", "0", "0">>

\* --compactnesses, default '0.5' (line 311)
DefaultCompactnesses == <<"0", ".", "5">>

\* command lines with short lists
ShortArgs ==
    { [resolutions |-> <<"2", ",", "8", ",", "1", "6">>, compactnesses |-> DefaultCompactnesses],
      [resolutions |-> <<"8">>, compactnesses |-> <<"0", ".", "5", ",", "1">>] }

MainArgs(argChoices, datasets, jobs) ==
    /\ args \in argChoices
    \* lines 341-342 and 452
    /\ resolutions = float_list(args.resolutions)
    /\ compactnesses = float_list(args.compactnesses)
    /\ param_grid = product(float_list(args.resolutions), float_list(args.compactnesses))
    /\ adata \in datasets
    /\ n_jobs \in jobs
    /\ started = 0
    /\ running = {}
    /\ results = [i \in 1..Len(product(float_list(args.resolutions),
                                         float_list(args.compactnesses))) |-> NoResult]
    /\ moran_rows = [i \in DOMAIN results |-> 0]
    /\ rank_mat = EmptyFrame
    /\ max_rank = 0
    /\ res_rank = EmptyFrame
    /\ comp_rank = EmptyFrame
    /\ df = EmptyFrame
    /\ error = ""
    /\ worker_ad = [i \in DOMAIN results |-> NoAd]

\* main at the sweep (line 461) of a run without --use_memmap
MainInit(argChoices, datasets, jobs) ==
    /\ MainArgs(argChoices, datasets, jobs)
    /\ pc = "sweep"
    /\ use_memmap = FALSE
    /\ td = "none"
    /\ h5ad = NoFile

\* lines 455-459: with --use_memmap, main makes a temporary directory and
\* writes the dataset to td/adata_tmp.h5ad; then the sweep starts
MakeTemp ==
    /\ pc = "memmap"
    /\ pc' = "sweep"
    /\ IF use_memmap
       THEN td' = "exists" /\ h5ad' = adata
       ELSE UNCHANGED tempVars
    /\ UNCHANGED <<cliVars, adata, n_jobs, sweepVars, tableVars, error>>
    /\ UNCHANGED <<catVars, scaleVars, gridVars, toolVars>>

\* the values of Moran's I in the runs over short lists: enough for ties
\* and for both orders of two genes
ScoreValues == {1, 2}

\* runs over short resolution and compactness lists, with one worker and
\* with MaxJobs workers
Init ==
    /\ MainInit(ShortArgs, {[var_names |-> 1..NumGenes, i_vals |-> ScoreValues,
                              segment |-> MainSegment]}, {1, MaxJobs})
    /\ CatIdle
    /\ ScaleIdle
    /\ GridIdle
    /\ ToolIdle

Spec == Init /\ [][MainNext]_vars

\* runs from line 455 on, with and without --use_memmap
MemmapInit ==
    /\ MainArgs(ShortArgs, {[var_names |-> 1..NumGenes, i_vals |-> {1},
                             segment |-> MainSegment]}, 1..MaxJobs)
    /\ pc = "memmap"
    /\ use_memmap \in BOOLEAN
    /\ td = "none"
    /\ h5ad = NoFile
    /\ CatIdle
    /\ ScaleIdle
    /\ GridIdle
    /\ ToolIdle

MemmapNext == MakeTemp \/ MainNext

SpecMemmap == MemmapInit /\ [][MemmapNext]_vars

\* runs of the default command line (--n_jobs_multiscale 3, line 313) on a
\* dataset of one gene
DefaultInit ==
    /\ MainInit({[resolutions |-> DefaultResolutions, compactnesses |-> DefaultCompactnesses]},
                {[var_names |-> {1}, i_vals |-> 1..NumI, segment |-> MainSegment]}, {3})
    /\ CatIdle
    /\ ScaleIdle
    /\ GridIdle
    /\ ToolIdle

SpecDefault == DefaultInit /\ [][MainNext]_vars

\* runs of the end-to-end scenario: 5 genes, 3 resolution scales
E2EInit ==
    /\ MainInit({[resolutions |-> <<"2", ",", "8", ",", "1", "6">>,
                  compactnesses |-> DefaultCompactnesses]},
                {[var_names |-> 1..5, i_vals |-> {1}, segment |-> MainSegment]}, {3})
    /\ CatIdle
    /\ ScaleIdle
    /\ GridIdle
    /\ ToolIdle

SpecE2E == E2EInit /\ [][MainNext]_vars

(***************************************************************************)
(* categorize_with_threshold                                               *)
(***************************************************************************)
Bands == <<"early", "mid", "late">>

Labels == {"early", "mid", "late", "mixed"}

\* regions = {'early': row['mean_early'], 'mid': ..., 'late': ...}, as the
\* list regions.items() in insertion order
regions(r) ==
    << <<"early", r.mean_early>>, <<"mid", r.mean_mid>>, <<"late", r.mean_late>> >>

\* sorted(items, key=lambda x: x[1]): ascending by value, and stable, so
\* items of equal value keep the order early, mid, late
sorted_by_value(items) ==
    LET n == Len(items)
        p == CHOOSE q \in [1..n -> 1..n] :
                /\ \A i, j \in 1..n : i # j => q[i] # q[j]
                /\ \A i, j \in 1..n : i < j =>
                      \/ RLess(items[q[i]][2], items[q[j]][2])
                      \/ /\ REq(items[q[i]][2], items[q[j]][2])
                         /\ q[i] < q[j]
    IN  [i \in 1..n |-> items[p[i]]]

categorize_reversed(r, t) ==
    LET sorted_regs == sorted_by_value(regions(r))
        reg1 == sorted_regs[1][1]
        val1 == sorted_regs[1][2]
        val2 == sorted_regs[2][2]
    IN  IF RLeq(RDiv(RSub(val2, val1), val2), t) THEN reg1 ELSE "mixed"

categorize_strict(r, t) ==
    LET sorted_regs == sorted_by_value(regions(r))
        reg1 == sorted_regs[1][1]
        val1 == sorted_regs[1][2]
        val2 == sorted_regs[2][2]
    IN  IF RLess(t, RDiv(RSub(val2, val1), val2)) THEN reg1 ELSE "mixed"

categorize_outer(r, t) ==
    LET sorted_regs == sorted_by_value(regions(r))
        reg1 == sorted_regs[1][1]
        val1 == sorted_regs[1][2]
        val2 == sorted_regs[3][2]
    IN  IF RLeq(t, RDiv(RSub(val2, val1), val2)) THEN reg1 ELSE "mixed"

categorize_with_threshold(r, t) ==
    LET sorted_regs == sorted_by_value(regions(r))
        reg1 == sorted_regs[1][1]
        val1 == sorted_regs[1][2]
        val2 == sorted_regs[2][2]
    IN  IF RLeq(t, RDiv(RSub(val2, val1), val2)) THEN reg1 ELSE "mixed"

\* The band means a row can hold: positive (rank means are >= 1).
MeanVals ==
    {Rat(k, 1) : k \in 1..MaxMean} \cup {Rat(3, 2), Rat(9, 1), Rat(20, 1), Rat(21, 1)}

\* --threshold_ratio is any float the command line gives (line 318)
ThresholdVals ==
    {Rat(0 - 1, 2), Rat(0, 1), Rat(1, 2), Rat(93, 100), Rat(1, 1)}

Rows == [mean_early : MeanVals, mean_mid : MeanVals, mean_late : MeanVals]

\* the band at the last place of sorted_regs: the largest mean
largest_band(r) == sorted_by_value(regions(r))[3][1]

band_value(r, b) ==
    CASE b = "early" -> r.mean_early
      [] b = "mid"   -> r.mean_mid
      [] b = "late"  -> r.mean_late

with_band(r, b, v) ==
    CASE b = "early" -> [r EXCEPT !.mean_early = v]
      [] b = "mid"   -> [r EXCEPT !.mean_mid = v]
      [] b = "late"  -> [r EXCEPT !.mean_late = v]

CatInit ==
    /\ cat_pc = "input"
    /\ row \in Rows
    /\ threshold_ratio \in ThresholdVals
    /\ \E b \in {"early", "mid", "late"}, v \in MeanVals :
          alt_row = with_band(row, b, v)
    /\ category = "none"
    /\ alt_category = "none"
    /\ ScaleIdle
    /\ MainIdle
    /\ GridIdle
    /\ ToolIdle

\* df.apply(lambda row: categorize_with_threshold(row, args.threshold_ratio))
Categorize ==
    /\ cat_pc = "input"
    /\ category' = categorize_with_threshold(row, threshold_ratio)
    /\ alt_category' = categorize_with_threshold(alt_row, threshold_ratio)
    /\ cat_pc' = "done"
    /\ UNCHANGED <<row, alt_row, threshold_ratio>>
    /\ UNCHANGED <<scaleVars, mainVars, gridVars, toolVars>>

CatNext == Categorize

SpecCat == CatInit /\ [][CatNext]_vars

(***************************************************************************)
(* Properties of categorize_with_threshold                                 *)
(***************************************************************************)
two_smallest(r) == SubSeq(sorted_by_value(regions(r)), 1, 2)

BandSet == {"early", "mid", "late"}

\* the place of a band in the order early, mid, late
band_place(b) == CHOOSE i \in 1..3 : Bands[i] = b

\* b1 holds a smallest mean of r, and is the first band that does
is_smallest_band(r, b1) ==
    /\ \A b \in BandSet : RLeq(band_value(r, b1), band_value(r, b))
    /\ \A b \in BandSet :
          REq(band_value(r, b), band_value(r, b1)) => band_place(b1) <= band_place(b)

\* b2 holds a smallest mean among the bands other than b1
is_second_band(r, b1, b2) ==
    /\ b2 # b1
    /\ \A b \in BandSet \ {b1} : RLeq(band_value(r, b2), band_value(r, b))

\* (v2 - v1) / v2 >= t, for v2 > 0
gap_reaches(v1, v2, t) ==
    (v2.n * v1.d - v1.n * v2.d) * t.d >= t.n * v2.n * v1.d

\* C1: once categorize_with_threshold has run, the label is the band of the
\* smallest mean v1 when (v2 - v1) / v2 >= t for the two smallest means
\* v1 <= v2, and "mixed" otherwise; means (1, 20, 21) with t = 0.5 give
\* "early" and means (1, 1.5, 9) with t = 0.93 give "mixed".
C1_Categorize ==
    cat_pc = "done" =>
        /\ \A b1, b2 \in BandSet :
              (is_smallest_band(row, b1) /\ is_second_band(row, b1, b2)) =>
                 category = IF gap_reaches(band_value(row, b1), band_value(row, b2),
                                           threshold_ratio)
                            THEN b1 ELSE "mixed"
        /\ ( /\ row = [mean_early |-> Rat(1, 1), mean_mid |-> Rat(20, 1),
                       mean_late |-> Rat(21, 1)]
             /\ threshold_ratio = Rat(1, 2) ) => category = "early"
        /\ ( /\ row = [mean_early |-> Rat(1, 1), mean_mid |-> Rat(3, 2),
                       mean_late |-> Rat(9, 1)]
             /\ threshold_ratio = Rat(93, 100) ) => category = "mixed"

C1_Witness ==
    /\ cat_pc = "done"
    /\ row = [mean_early |-> Rat(1, 1), mean_mid |-> Rat(20, 1), mean_late |-> Rat(21, 1)]
    /\ threshold_ratio = Rat(1, 2)
    /\ category = "early"

\* alt_row is row with only its largest mean changed, and that mean is
\* still the one sorted last (the two smallest are the same, in the same bands)
differs_in_largest_only ==
    /\ alt_row = with_band(row, largest_band(row), band_value(alt_row, largest_band(row)))
    /\ largest_band(alt_row) = largest_band(row)

\* C2: two rows with the same threshold ratio that differ only in the value
\* of the largest band mean, which stays the largest, get the same label.
C2_LargestIgnored ==
    (cat_pc = "done" /\ differs_in_largest_only) => category = alt_category

C2_Witness ==
    /\ cat_pc = "done"
    /\ differs_in_largest_only
    /\ row = [mean_early |-> Rat(1, 1), mean_mid |-> Rat(20, 1), mean_late |-> Rat(21, 1)]
    /\ alt_row = [mean_early |-> Rat(1, 1), mean_mid |-> Rat(20, 1), mean_late |-> Rat(20, 1)]
    /\ threshold_ratio = Rat(1, 2)
    /\ category = "early"
    /\ alt_category = "early"

tie(r) == REq(two_smallest(r)[1][2], two_smallest(r)[2][2])

\* C3 (as claimed): the label is one of early, mid, late, mixed, and a tie
\* of the two smallest band means always gives "mixed".
C3_TieAlwaysMixed ==
    cat_pc = "done" =>
        /\ category \in Labels
        /\ tie(row) => category = "mixed"

\* C3 (amended): the label is one of early, mid, late, mixed, and a tie of
\* the two smallest band means gives "mixed" when the threshold ratio is
\* greater than 0 (with a ratio <= 0 the gap 0 reaches it and the tie gets
\* the band sorted first).
C3_TieMixedPositiveRatio ==
    cat_pc = "done" =>
        /\ category \in Labels
        /\ (tie(row) /\ RLess(Rat(0, 1), threshold_ratio)) => category = "mixed"

C3_Witness ==
    /\ cat_pc = "done"
    /\ tie(row)
    /\ row.mean_mid = Rat(2, 1)
    /\ row.mean_late = Rat(2, 1)
    /\ row.mean_early = Rat(9, 1)
    /\ threshold_ratio = Rat(93, 100)
    /\ category = "mixed"

(***************************************************************************)
(* Properties of calc_scale                                                *)
(***************************************************************************)
\* the column calc_scale names for the call's resolution and compactness
out_column == rank_column(scale_id(scale_args.res, scale_args.comp))

\* C8: for a non-empty analysis result calc_scale returns one rank per gene
\* of the result, the rank being 1 plus the number of genes with a strictly
\* greater I: the highest I gets rank 1, equal I get equal ranks, and every
\* rank lies in 1..n.
C8_MinRankDescending ==
    (scale_pc = "done" /\ DOMAIN moran # {}) =>
        /\ ~scale_out.raised
        /\ scale_out.value.index = DOMAIN moran
        /\ scale_out.value.columns = <<out_column>>
        /\ LET rank == scale_out.value.data[out_column]
               n    == Cardinality(DOMAIN moran)
           IN  /\ DOMAIN rank = DOMAIN moran
               /\ \A g \in DOMAIN moran :
                     /\ rank[g] = 1 + Cardinality({h \in DOMAIN moran : moran[h] > moran[g]})
                     /\ rank[g] \in 1..n
                     /\ (\A h \in DOMAIN moran : moran[h] <= moran[g]) => rank[g] = 1
               /\ \A g, h \in DOMAIN moran : moran[g] = moran[h] => rank[g] = rank[h]

C8_Witness ==
    /\ scale_pc = "done"
    /\ DOMAIN moran = {1, 2, 3}
    /\ moran[1] = 2 /\ moran[2] = 0 /\ moran[3] = 2
    /\ scale_out.value.data[out_column] = (1 :> 1) @@ (2 :> 3) @@ (3 :> 1)

(***************************************************************************)
(* Properties of the sweep and the rank aggregation                        *)
(***************************************************************************)
\* the column task i's calc_scale names
column_of_task(i) == rank_column(scale_id(param_grid[i].r, param_grid[i].c))

\* every task of the sweep has returned
sweep_over == pc # "sweep" /\ pc # "idle"

\* rank_mat holds the joined table
joined ==
    pc \in {"fill", "sort", "res_rank", "comp_rank", "bands", "categorize"}
       \/ (pc = "error" /\ error = "KeyError")

\* rank_mat holds the joined table, sentinel-filled
filled == joined /\ pc # "fill"

\* the ranks task i produced, by gene
ranks_of_task(i) == results[i].value.data[column_of_task(i)]

\* the greatest rank any scale produced
max_observed_rank ==
    CHOOSE v \in UNION {{ranks_of_task(i)[g] : g \in DOMAIN ranks_of_task(i)} :
                           i \in {j \in DOMAIN results : ~empty(results[j].value)}} :
       \A i \in {j \in DOMAIN results : ~empty(results[j].value)} :
          \A g \in DOMAIN ranks_of_task(i) : ranks_of_task(i)[g] <= v

\* C4: in the joined, sentinel-filled rank table no cell is null, and each
\* cell is the positive rank its scale produced for its gene or, where the
\* scale produced none, exactly max_observed_rank + 1.
C4_SentinelFilled ==
    filled =>
        LET observed == max_observed_rank
        IN  /\ max_rank = observed
            /\ \A i \in DOMAIN results :
                  LET col == column_of_task(i)
                      produced == results[i].value
                  IN  col \in Range(rank_mat.columns) =>
                         \A g \in rank_mat.index :
                            LET cell == rank_mat.data[col][g]
                            IN  /\ cell # NaN
                                /\ cell \in Nat \ {0}
                                /\ IF g \in produced.index
                                   THEN cell = produced.data[col][g]
                                   ELSE cell = observed + 1
            /\ \A c \in Range(rank_mat.columns) :
                  \E i \in DOMAIN results : c = column_of_task(i)

C4_Witness ==
    /\ filled
    /\ Len(rank_mat.columns) = 3
    /\ rank_mat.index = {1, 2}
    /\ max_rank = 2
    /\ \E c \in Range(rank_mat.columns) : rank_mat.data[c][1] = 3
    /\ \E c \in Range(rank_mat.columns) : rank_mat.data[c][2] = 2

\* the default command line, and every scale returned a non-empty table
default_all_scored ==
    /\ args.resolutions = DefaultResolutions
    /\ args.compactnesses = DefaultCompactnesses
    /\ sweep_over
    /\ \A i \in DOMAIN results : ~empty(results[i].value)

\* C5 (as claimed): on the default resolution list with every scale
\* non-empty, the aggregation writes the per-resolution columns the band
\* step looks up, and the band step produces mean_early, mean_mid and
\* mean_late for every gene: main does not end in an error there.
C5_DefaultBandMeans ==
    default_all_scored =>
        /\ pc # "error"
        /\ pc = "bands" =>
              /\ has_columns(res_rank, early_cols)
              /\ has_columns(res_rank, mid_cols)
              /\ has_columns(res_rank, late_cols)
        /\ pc = "categorize" =>
              /\ {mean_early_col, mean_mid_col, mean_late_col} \subseteq Range(df.columns)
              /\ df.index = adata.var_names

\* 3 scales on 5 genes, all returned, exactly one with no significant gene
one_scale_empty ==
    /\ Len(param_grid) = 3
    /\ adata.var_names = 1..5
    /\ sweep_over
    /\ \A i \in DOMAIN results : ~results[i].raised
    /\ Cardinality({i \in DOMAIN results : moran_rows[i] = 0}) = 1

\* C6 (as claimed): when exactly one of 3 scales on 5 genes yields no
\* significant gene, main does not end in an error during aggregation and
\* the rank table has exactly 2 scale columns.
C6_OneEmptyScaleCompletes ==
    one_scale_empty =>
        /\ pc # "error"
        /\ joined => Len(rank_mat.columns) = 2

\* C7: calc_scale returns the empty table, and does not raise, whenever the
\* analysis returned no rows, and the joined rank table has no column of
\* such a scale: its columns are those of the scales that returned rows.
C7_EmptyScaleSkipped ==
    /\ pc # "idle" =>
          \A i \in finished :
             moran_rows[i] = 0 => (~results[i].raised /\ results[i].value = EmptyFrame)
    /\ joined =>
          /\ \A i \in DOMAIN results :
                moran_rows[i] = 0 => column_of_task(i) \notin Range(rank_mat.columns)
          /\ Range(rank_mat.columns) =
                {column_of_task(i) : i \in {j \in DOMAIN results : moran_rows[j] > 0}}

C7_Witness ==
    /\ joined
    /\ Len(param_grid) = 3
    /\ moran_rows[2] = 0
    /\ results[2].value = EmptyFrame
    /\ Len(rank_mat.columns) = 2

\* the orders in which n results can be collected
collection_orders(n) ==
    {p \in [1..n -> 1..n] : \A i, j \in 1..n : p[i] = p[j] => i = j}

\* the aggregation has just ended: rank_mat holds the joined,
\* sentinel-filled, column-sorted table, which no later step changes
aggregated == pc = "res_rank"

\* C14: the aggregated rank table is the one the aggregation computes from
\* the per-scale rank tables collected in any other order: the same set of
\* genes, the same set of columns and the same value in every cell.
C14_OrderIndependent ==
    aggregated =>
        LET tables == rank_tables
        IN  \A p \in collection_orders(Len(tables)) :
               LET other == aggregate([i \in 1..Len(tables) |-> tables[p[i]]])
               IN  /\ other.index = rank_mat.index
                   /\ Range(other.columns) = Range(rank_mat.columns)
                   /\ \A c \in Range(rank_mat.columns) :
                         \A g \in rank_mat.index : other.data[c][g] = rank_mat.data[c][g]

\* three scales scored different sets of genes, so that the join and the
\* sentinel matter, and the table is aggregated
C14_Witness ==
    /\ aggregated
    /\ Len(rank_tables) = 3
    /\ rank_tables[1].index = {1}
    /\ rank_tables[2].index = {1, 2}
    /\ rank_tables[3].index = {2}
    /\ \E c \in Range(rank_mat.columns) : rank_mat.data[c][1] = max_rank + 1

\* some calc_scale worker of the sweep raised
worker_raised == \E i \in DOMAIN results : results[i].raised

\* no step after the sweep has produced anything
nothing_built ==
    /\ rank_mat = EmptyFrame
    /\ res_rank = EmptyFrame
    /\ comp_rank = EmptyFrame
    /\ df = EmptyFrame

\* C13: once a calc_scale worker of the sweep has raised, main is still in
\* the sweep or has ended with the worker's error; it never reaches concat
\* or a later step, and no rank table is built from the scales that
\* succeeded.
C13_WorkerErrorAborts ==
    worker_raised =>
        /\ pc \in {"sweep", "error"}
        /\ pc = "error" => error = "worker"
        /\ nothing_built

\* main ended with the worker's error although two other scales returned
\* ranks
C13_Witness ==
    /\ pc = "error"
    /\ error = "worker"
    /\ Len(param_grid) = 3
    /\ Cardinality({i \in DOMAIN results : results[i].raised}) = 1
    /\ Cardinality({i \in DOMAIN results : moran_rows[i] > 0}) = 2

(***************************************************************************)
(* _assemble_grid and the assembly step of build_grid_for_group_parallel   *)
(***************************************************************************)
\* math.ceil(n / k) for k > 0: the least integer that is >= n / k
ceil_div(n, k) == CHOOSE q \in 0..(n + 1) : q * k >= n /\ (q - 1) * k < n

RECURSIVE fill_axes(_, _, _, _, _, _, _)
\* the loop of lines 208-216 from cell (r, c) on, i tiles placed or passed
\* so far: every cell is switched off, and cell (r, c) shows the image
\* opened from tile_paths[i] while i < len(tile_paths)
fill_axes(tile_paths, files, rows, ncols, r, c, i) ==
    IF r = rows THEN <<>>
    ELSE IF c = ncols THEN fill_axes(tile_paths, files, rows, ncols, r + 1, 0, i)
    ELSE (<<r, c>> :> IF i < Len(tile_paths)
                      THEN [shown |-> TRUE, path |-> tile_paths[i + 1],
                            img |-> files[tile_paths[i + 1]]]
                      ELSE Blank)
         @@ fill_axes(tile_paths, files, rows, ncols, r, c + 1, i + 1)

assemble_floor_rows(tile_paths, files, ncols) ==
    LET rows == IF tile_paths # <<>> THEN Len(tile_paths) \div ncols ELSE 1
    IN  [rows |-> rows, cols |-> ncols,
         axes |-> fill_axes(tile_paths, files, rows, ncols, 0, 0, 0)]

\* _assemble_grid(tile_paths, out_path, cols): the figure it saves
\* rows = math.ceil(len(tile_paths) / cols) if tile_paths else 1
assemble_grid(tile_paths, files, ncols) ==
    LET rows == IF tile_paths # <<>> THEN ceil_div(Len(tile_paths), ncols) ELSE 1
    IN  [rows |-> rows, cols |-> ncols,
         axes |-> fill_axes(tile_paths, files, rows, ncols, 0, 0, 0)]

filter_none(paths, files) == paths

filter_completion_order(paths, files) == [i \in DOMAIN collected |-> paths[collected[i]]]

\* [p for p in ordered_tiles if os.path.exists(p)]
filter_existing(paths, files) == SelectSeq(paths, LAMBDA p : p \in DOMAIN files)

\* os.path.join(a, b) for a relative b and an a that does not end in "/"
path_join(a, b) == a \o <<"/">> \o b

\* args.out_dir
OutDir == <<"o", "u", "t">>

\* tmp_dir = os.path.join(out_dir, f"tiles_{group_name}")
tmp_dir(out_dir, name) == path_join(out_dir, <<"t", "i", "l", "e", "s", "_">> \o name)

\* the genes of a render list
GeneNames ==
    << <<"g", "1">>, <<"g", "2">>, <<"g", "3">>, <<"g", "4">>, <<"g", "5">>,
       <<"g", "6">>, <<"g", "7">>, <<"g", "8">>, <<"g", "9">> >>

tile_path_no_group(dir, g) == path_join(OutDir, g \o <<".", "p", "n", "g">>)

\* the tile a gene gets: os.path.join(tmp_dir, f"{g}.png")
tile_path(dir, g) == path_join(dir, g \o <<".", "p", "n", "g">>)

\* out_png = os.path.join(out_dir, f"grid_{group_name}.png")
grid_path(out_dir, name) ==
    path_join(out_dir, <<"g", "r", "i", "d", "_">> \o name \o <<".", "p", "n", "g">>)

\* a group of the assembly runs
Late == <<"l", "a", "t", "e">>

\* the sizes a tile image can have
ImageSizes == {[w |-> 1, h |-> 1], [w |-> 2, h |-> 1]}

\* After the workers: the tiles of n genes, each tile on disk (with an
\* image of some size) or not
GridInit ==
    /\ grid_pc = "filter"
    /\ \E n \in 1..MaxTiles :
          /\ genes = [k \in 1..n |-> GeneNames[k]]
          /\ ordered_tiles = [k \in 1..n |-> tile_path(tmp_dir(OutDir, Late), GeneNames[k])]
    /\ grid_cols \in 1..MaxCols
    /\ disk \in UNION {[some -> ImageSizes] : some \in SUBSET Range(ordered_tiles)}
    /\ existing_tiles = <<>>
    /\ canvas = NoCanvas
    /\ dirs = {OutDir, tmp_dir(OutDir, Late)}
    /\ grid_files = <<>>
    /\ call = 1
    /\ group_name = Late
    /\ gene_lists = <<genes>>
    /\ top_k = 10
    /\ adata_global = NoData
    /\ max_workers = 6
    /\ futures = <<>>
    /\ collected = <<>>
    /\ writers = <<>>
    /\ CatIdle
    /\ ScaleIdle
    /\ MainIdle
    /\ ToolIdle

\* existing_tiles = [p for p in ordered_tiles if os.path.exists(p)]
FilterExisting ==
    /\ grid_pc = "filter"
    /\ existing_tiles' = filter_existing(ordered_tiles, disk)
    /\ grid_pc' = "assemble"
    /\ UNCHANGED <<ordered_tiles, grid_cols, disk, canvas, renderVars>>
    /\ UNCHANGED <<catVars, scaleVars, mainVars, toolVars, outVars>>

\* _assemble_grid(existing_tiles, out_path=out_png, cols=cols, ...);
\* Image.open raises FileNotFoundError for a path that is not on disk
AssembleGrid ==
    /\ grid_pc = "assemble"
    /\ IF \A k \in 1..Len(existing_tiles) : existing_tiles[k] \in DOMAIN disk
       THEN /\ canvas' = assemble_grid(existing_tiles, disk, grid_cols)
            \* fig.savefig(out_path, ...), out_png of line 237
            /\ grid_files' = (grid_path(OutDir, group_name) :> call) @@ grid_files
            /\ grid_pc' = "done"
       ELSE /\ grid_pc' = "error"
            /\ UNCHANGED <<canvas, grid_files>>
    /\ UNCHANGED <<ordered_tiles, grid_cols, disk, existing_tiles, renderVars, dirs>>
    /\ UNCHANGED <<catVars, scaleVars, mainVars, toolVars>>

GridNext == FilterExisting \/ AssembleGrid

SpecGrid == GridInit /\ [][GridNext]_vars

(***************************************************************************)
(* build_grid_for_group_parallel from its entry, the render workers, and   *)
(* the two calls of main (lines 142-197, 222-262, 552-578)                 *)
(***************************************************************************)
\* the tile of a gene that is not in var_names, and the tile of a plot
Placeholder == [kind |-> "not in var_names", w |-> 1, h |-> 1]

Plot == [kind |-> "plot", w |-> 2, h |-> 1]

render_gene_png_worker_no_guard(gene, out_png, data, fails) ==
    IF data.none \/ gene \notin data.var_names \/ fails
    THEN [raised |-> TRUE, wrote |-> <<>>]
    ELSE [raised |-> FALSE, wrote |-> (out_png :> Plot)]

\* _render_gene_png_worker(gene, out_png, ..., adata_global): whether it
\* raises, and the file it writes; fails: the external embedding or plot
\* call (lines 166-192) raises
render_gene_png_worker(gene, out_png, data, fails) ==
    IF data.none THEN [raised |-> TRUE, wrote |-> <<>>]
    ELSE IF gene \notin data.var_names
         THEN [raised |-> FALSE, wrote |-> (out_png :> Placeholder)]
    ELSE IF fails THEN [raised |-> TRUE, wrote |-> <<>>]
    ELSE [raised |-> FALSE, wrote |-> (out_png :> Plot)]

\* f"moran_late_500_top{args.top_k}" (line 553)
group_late(k) == <<"m", "o", "r", "a", "n", "_", "l", "a", "t", "e", "_", "5", "0", "0", "_", "t", "o", "p">> \o int_str(k)

\* f"moran_late_m_mid_500_top{args.top_k}" (line 567)
group_late_m_mid(k) ==
    <<"m", "o", "r", "a", "n", "_", "l", "a", "t", "e", "_", "m", "_", "m", "i", "d", "_", "5", "0", "0", "_", "t", "o", "p">> \o int_str(k)

\* group_name of main's n-th call
group_of_call(n, k) == IF n = 1 THEN group_late(k) ELSE group_late_m_mid(k)

\* the futures whose worker has ended
ended == {k \in DOMAIN futures : futures[k] \in {"done", "raised"}}

BuildGrid_makedirs_first ==
    /\ grid_pc = "call"
    /\ dirs' = dirs \cup {OutDir, tmp_dir(OutDir, group_name)}
    /\ IF genes = <<>>
       THEN /\ grid_pc' = "done"
            /\ UNCHANGED <<ordered_tiles, futures>>
       ELSE /\ ordered_tiles' = [k \in DOMAIN genes |->
                                   tile_path(tmp_dir(OutDir, group_name), genes[k])]
            /\ futures' = [k \in DOMAIN genes |-> "pending"]
            /\ grid_pc' = "render"
    /\ UNCHANGED <<grid_cols, disk, existing_tiles, canvas, call, group_name, genes,
                   gene_lists, top_k, adata_global, max_workers, collected, writers,
                   grid_files>>
    /\ UNCHANGED <<catVars, scaleVars, mainVars, toolVars>>

\* lines 229-240: no genes, no grid (returns None); otherwise the tile
\* paths in the order of genes, and one future per gene (lines 243-250)
BuildGrid ==
    /\ grid_pc = "call"
    /\ IF genes = <<>>
       THEN /\ grid_pc' = "done"
            /\ UNCHANGED <<ordered_tiles, futures, dirs>>
       ELSE \* lines 233-235: os.makedirs(out_dir), os.makedirs(tmp_dir)
            /\ dirs' = dirs \cup {OutDir, tmp_dir(OutDir, group_name)}
            /\ ordered_tiles' = [k \in DOMAIN genes |->
                                   tile_path(tmp_dir(OutDir, group_name), genes[k])]
            /\ futures' = [k \in DOMAIN genes |-> "pending"]
            /\ grid_pc' = "render"
    /\ UNCHANGED <<grid_cols, disk, existing_tiles, canvas, call, group_name, genes,
                   gene_lists, top_k, adata_global, max_workers, collected, writers,
                   grid_files>>
    /\ UNCHANGED <<catVars, scaleVars, mainVars, toolVars>>

\* the pool gives the oldest pending call to a free worker process
StartRender ==
    /\ grid_pc \in {"render", "shutdown"}
    /\ Cardinality({k \in DOMAIN futures : futures[k] = "running"}) < max_workers
    /\ \E k \in DOMAIN futures :
          /\ futures[k] = "pending"
          /\ \A j \in 1..(k - 1) : futures[j] # "pending"
          /\ futures' = [futures EXCEPT ![k] = "running"]
    /\ UNCHANGED <<grid_pc, ordered_tiles, grid_cols, disk, existing_tiles, canvas, call,
                   group_name, genes, gene_lists, top_k, adata_global, max_workers,
                   collected, writers>>
    /\ UNCHANGED <<catVars, scaleVars, mainVars, toolVars, outVars>>

\* a worker's _render_gene_png_worker(g, png, ...) ends
FinishRender ==
    /\ grid_pc \in {"render", "shutdown"}
    /\ \E k \in DOMAIN futures :
          /\ futures[k] = "running"
          /\ \E fails \in BOOLEAN :
                LET out == render_gene_png_worker(genes[k], ordered_tiles[k],
                                                  adata_global, fails)
                IN  /\ futures' = [futures EXCEPT
                                      ![k] = IF out.raised THEN "raised" ELSE "done"]
                    /\ disk' = out.wrote @@ disk
                    /\ writers' = [p \in DOMAIN out.wrote |->
                                      (IF p \in DOMAIN writers THEN writers[p] ELSE {})
                                         \cup {<<call, k>>}] @@ writers
    /\ UNCHANGED <<grid_pc, ordered_tiles, grid_cols, existing_tiles, canvas, call,
                   group_name, genes, gene_lists, top_k, adata_global, max_workers,
                   collected>>
    /\ UNCHANGED <<catVars, scaleVars, mainVars, toolVars, outVars>>

Collect_swallow ==
    /\ grid_pc = "render"
    /\ \E k \in ended :
          /\ \A i \in DOMAIN collected : collected[i] # k
          /\ collected' = Append(collected, k)
    /\ UNCHANGED <<grid_pc, ordered_tiles, grid_cols, disk, existing_tiles, canvas, call,
                   group_name, genes, gene_lists, top_k, adata_global, max_workers,
                   futures, writers>>
    /\ UNCHANGED <<catVars, scaleVars, mainVars, toolVars, outVars>>

\* for f in as_completed(futures): _ = f.result() -- as_completed yields a
\* future that has ended, in whatever order they end; result() raises the
\* worker's exception, which leaves the loop and the with block, whose
\* exit waits for the pool to shut down
Collect ==
    /\ grid_pc = "render"
    /\ \E k \in ended :
          /\ \A i \in DOMAIN collected : collected[i] # k
          /\ collected' = Append(collected, k)
          /\ grid_pc' = IF futures[k] = "raised" THEN "shutdown" ELSE "render"
    /\ UNCHANGED <<ordered_tiles, grid_cols, disk, existing_tiles, canvas, call,
                   group_name, genes, gene_lists, top_k, adata_global, max_workers,
                   futures, writers>>
    /\ UNCHANGED <<catVars, scaleVars, mainVars, toolVars, outVars>>

ExitPool_first_completed ==
    /\ grid_pc = "render"
    /\ collected # <<>>
    /\ grid_pc' = "filter"
    /\ UNCHANGED <<ordered_tiles, grid_cols, disk, existing_tiles, canvas, renderVars>>
    /\ UNCHANGED <<catVars, scaleVars, mainVars, toolVars, outVars>>

\* the loop has seen every future, none raised: the with block ends
ExitPool ==
    /\ grid_pc = "render"
    /\ Len(collected) = Len(futures)
    /\ grid_pc' = "filter"
    /\ UNCHANGED <<ordered_tiles, grid_cols, disk, existing_tiles, canvas, renderVars>>
    /\ UNCHANGED <<catVars, scaleVars, mainVars, toolVars, outVars>>

\* the pool has shut down (every worker has ended): the exception leaves
\* build_grid_for_group_parallel and, uncaught, main
Propagate ==
    /\ grid_pc = "shutdown"
    /\ ended = DOMAIN futures
    /\ grid_pc' = "raised"
    /\ UNCHANGED <<ordered_tiles, grid_cols, disk, existing_tiles, canvas, renderVars>>
    /\ UNCHANGED <<catVars, scaleVars, mainVars, toolVars, outVars>>

\* main's second call (line 566), after the first returned
SecondCall ==
    /\ grid_pc = "done"
    /\ call = 1
    /\ call' = 2
    /\ group_name' = group_of_call(2, top_k)
    /\ genes' = gene_lists[2]
    /\ grid_pc' = "call"
    /\ ordered_tiles' = <<>>
    /\ existing_tiles' = <<>>
    /\ canvas' = NoCanvas
    /\ futures' = <<>>
    /\ collected' = <<>>
    /\ UNCHANGED <<grid_cols, disk, gene_lists, top_k, adata_global, max_workers, writers>>
    /\ UNCHANGED <<catVars, scaleVars, mainVars, toolVars, outVars>>

\* tempfile.mkdtemp() of line 457: a directory under the system's
\* temporary directory
TempDir == <<"/", "t", "m", "p", "/", "t", "d">>

\* whether path p is inside directory d
inside(p, d) == Len(p) > Len(d) /\ SubSeq(p, 1, Len(d) + 1) = d \o <<"/">>

\* shutil.rmtree(d): what it leaves of the files
rmtree(files, d) == [p \in {q \in DOMAIN files : ~inside(q, d)} |-> files[p]]

\* adata_path = os.path.join(td, 'adata_tmp.h5ad')
adata_path == path_join(TempDir, <<"a", "d", "a", "t", "a", "_", "t", "m", "p", ".", "h", "5", "a", "d">>)

PipelineCompleted_rmtree ==
    /\ grid_pc = "done"
    /\ call = 2
    /\ grid_pc' = "completed"
    /\ disk' = IF use_memmap
               THEN rmtree(rmtree(disk, tmp_dir(OutDir, group_of_call(1, top_k))),
                           tmp_dir(OutDir, group_of_call(2, top_k)))
               ELSE disk
    /\ UNCHANGED <<ordered_tiles, grid_cols, existing_tiles, canvas, renderVars, outVars>>
    /\ UNCHANGED <<catVars, scaleVars, mainVars, toolVars>>

\* line 580: after the second call returned, main prints "Pipeline
\* completed successfully!" and ends; nothing is removed
PipelineCompleted ==
    /\ grid_pc = "done"
    /\ call = 2
    /\ grid_pc' = "completed"
    /\ UNCHANGED <<ordered_tiles, grid_cols, disk, existing_tiles, canvas, renderVars, outVars>>
    /\ UNCHANGED <<catVars, scaleVars, mainVars, toolVars>>

RenderNext ==
    \/ BuildGrid
    \/ StartRender
    \/ FinishRender
    \/ Collect
    \/ ExitPool
    \/ Propagate
    \/ FilterExisting
    \/ AssembleGrid
    \/ SecondCall
    \/ PipelineCompleted

\* the genes a render list is drawn from
RenderGenes == {GeneNames[1], GeneNames[2], GeneNames[3]}

\* the lists of n different genes
gene_orders(n) ==
    {l \in [1..n -> RenderGenes] : \A i, j \in 1..n : l[i] = l[j] => i = j}

\* main at its first call (line 552): both lists are the first top_k rows
\* of the same table, sorted by two keys
RenderCall ==
    /\ grid_pc = "call"
    /\ call = 1
    /\ top_k \in 1..MaxList
    /\ \E n \in 0..top_k : gene_lists \in gene_orders(n) \X gene_orders(n)
    /\ genes = gene_lists[1]
    /\ group_name = group_of_call(1, top_k)
    /\ adata_global \in {NoData} \cup
                          {[none |-> FALSE, var_names |-> v] : v \in SUBSET RenderGenes}
    /\ max_workers \in {1, MaxWorkers}
    /\ grid_cols \in RenderCols
    /\ ordered_tiles = <<>>
    /\ disk = <<>>
    /\ existing_tiles = <<>>
    /\ canvas = NoCanvas
    /\ futures = <<>>
    /\ collected = <<>>
    /\ writers = <<>>
    /\ dirs = {}
    /\ grid_files = <<>>
    /\ CatIdle
    /\ ScaleIdle
    /\ ToolIdle

RenderInit == RenderCall /\ MainIdle

SpecRender == RenderInit /\ [][RenderNext]_vars

\* main at its first grid call, after a sweep with or without --use_memmap:
\* with it, lines 471-472 removed the temporary directory before any grid
\* call was made
CleanupInit ==
    /\ RenderCall
    /\ grid_cols = 1
    /\ MainAtRest
    /\ use_memmap \in BOOLEAN
    /\ td = IF use_memmap THEN "removed" ELSE "none"
    /\ h5ad = NoFile
    /\ disk = rmtree(IF use_memmap THEN (adata_path :> 1) ELSE <<>>, TempDir)

SpecCleanup == CleanupInit /\ [][RenderNext]_vars

(***************************************************************************)
(* strip_yml.py                                                            *)
(***************************************************************************)
\* whether text has sub at place k
occurs_at(text, sub, k) ==
    /\ k + Len(sub) - 1 <= Len(text)
    /\ \A j \in 1..Len(sub) : text[k + j - 1] = sub[j]

\* sub in text, for two str
contains(text, sub) == \E k \in 1..(Len(text) + 1) : occurs_at(text, sub, k)

RECURSIVE replace(_, _, _)
\* text.replace(old, new) for a non-empty old: every occurrence, from the
\* left, without overlap
replace(text, old, new) ==
    IF text = <<>> THEN <<>>
    ELSE IF occurs_at(text, old, 1)
         THEN new \o replace(SubSeq(text, Len(old) + 1, Len(text)), old, new)
    ELSE <<Head(text)>> \o replace(Tail(text), old, new)

\* a dependency that is a str, and one that is not (the pip section)
Str(text) == [str |-> TRUE, text |-> text]

PipSection == [str |-> FALSE, pip |-> <<<<"x", "=", "=", "1">>>>]

strip_dep_name_only(dep) ==
    IF dep.str /\ Len(split(dep.text, "=")) >= 3
    THEN Str(split(dep.text, "=")[1])
    ELSE dep

\* the loop body of lines 21-33: what is appended to new_deps for dep
strip_dep(dep) ==
    IF dep.str
    THEN LET parts == split(dep.text, "=")
         IN  IF Len(parts) >= 3
             THEN Str(parts[1] \o <<"=">> \o parts[2])
             ELSE dep
    ELSE dep

\* the name of the key and the values yaml.safe_load gives: None, an int,
\* a str, a list, a mapping
Dependencies == <<"d", "e", "p", "e", "n", "d", "e", "n", "c", "i", "e", "s">>

NoneValue == [type |-> "none"]

IntValue == [type |-> "int"]

StrValue(text) == [type |-> "str", text |-> text]

ListValue(items) == [type |-> "list", items |-> items]

\* a mapping with the key name only, and one that has dependencies too
DictValue == [type |-> "dict", name |-> <<"e">>, has_dependencies |-> FALSE]

DictWith(deps) ==
    [type |-> "dict", name |-> <<"e">>, has_dependencies |-> TRUE, dependencies |-> deps]

\* 'dependencies' in env (line 18): whether the test raises TypeError,
\* and its value
in_env(env) ==
    CASE env.type \in {"none", "int"} -> [raised |-> TRUE, value |-> FALSE]
      [] env.type = "str" -> [raised |-> FALSE, value |-> contains(env.text, Dependencies)]
      [] env.type = "list" ->
            [raised |-> FALSE,
             value  |-> \E i \in DOMAIN env.items : env.items[i] = Str(Dependencies)]
      [] env.type = "dict" -> [raised |-> FALSE, value |-> env.has_dependencies]

\* lines 19-35 for an env that passed the test of line 18: whether
\* env['dependencies'] or the loop over it raises TypeError, and the env
\* after them
strip_env(env) ==
    IF env.type # "dict" THEN [raised |-> TRUE, env |-> env]
    ELSE CASE env.dependencies.type \in {"none", "int"} -> [raised |-> TRUE, env |-> env]
           [] env.dependencies.type = "str" ->
                 [raised |-> FALSE,
                  env |-> [env EXCEPT !.dependencies =
                             ListValue([i \in DOMAIN env.dependencies.text |->
                                           strip_dep(Str(<<env.dependencies.text[i]>>))])]]
           [] env.dependencies.type = "list" ->
                 [raised |-> FALSE,
                  env |-> [env EXCEPT !.dependencies =
                             ListValue([i \in DOMAIN env.dependencies.items |->
                                           strip_dep(env.dependencies.items[i])])]]

\* output_file=None
None == <<"None">>

\* lines 38-39: the path the cleaned file is written to
output_path(yml_file, output_file) ==
    IF output_file = None
    THEN replace(yml_file, <<".", "y", "m", "l">>, <<"_", "c", "l", "e", "a", "n", "e", "d", ".", "y", "m", "l">>)
    ELSE output_file

\* strip_build_strings(yml_file, output_file) on the files given, where
\* opening the output file gives can_write ("ok" or the error raised):
\* the exception it raises ("" for none) and the file it writes
strip_build_strings(yml_file, output_file, files, can_write) ==
    IF yml_file \notin DOMAIN files
    THEN [raised |-> "FileNotFoundError", wrote |-> <<>>]
    ELSE IF ~files[yml_file].readable
    THEN [raised |-> "PermissionError", wrote |-> <<>>]
    ELSE IF ~files[yml_file].parses
    THEN [raised |-> "YAMLError", wrote |-> <<>>]
    ELSE LET env  == files[yml_file].yaml
             test == in_env(env)
             out  == IF test.value THEN strip_env(env) ELSE [raised |-> FALSE, env |-> env]
         IN  IF test.raised \/ out.raised
             THEN [raised |-> "TypeError", wrote |-> <<>>]
             ELSE IF can_write # "ok"
             THEN [raised |-> can_write, wrote |-> <<>>]
             ELSE [raised |-> "", wrote |-> (output_path(yml_file, output_file) :> out.env)]

\* the script run as a program (lines 48-64); a process that ends without
\* sys.exit has exit code 0
StripMain ==
    /\ strip_pc = "start"
    /\ strip_pc' = "exited"
    /\ IF Len(argv) < 2
       THEN /\ stdout' = <<"Usage", "Example">>
            /\ exit_code' = 1
            /\ UNCHANGED written
       ELSE LET input_file  == argv[2]
                output_file == IF Len(argv) > 2 THEN argv[3] ELSE None
                call_out    == strip_build_strings(input_file, output_file, fs, writable)
            IN  CASE call_out.raised = "" ->
                        /\ stdout' = <<"Cleaned YML file written to">>
                        /\ exit_code' = 0
                        /\ written' = call_out.wrote @@ written
                  [] call_out.raised = "FileNotFoundError" ->
                        /\ stdout' = <<"Error: File not found">>
                        /\ exit_code' = 1
                        /\ UNCHANGED written
                  [] OTHER ->
                        /\ stdout' = <<"Error: e">>
                        /\ exit_code' = 1
                        /\ UNCHANGED written
    /\ UNCHANGED <<argv, fs, writable>>
    /\ UNCHANGED <<catVars, scaleVars, mainVars, gridVars, envVars, coordVars>>

StripNext == StripMain

\* the dependency lines of the runs
DepEntries ==
    { Str(<<"a">>), Str(<<"a", "=", "1">>), Str(<<"a", "=", "1", "=", "b">>),
      Str(<<"a", "=", "1", "=", "b", "=", "c">>), Str(<<"a", "=", "=", "1">>), PipSection }

\* the lists of at most n entries
dep_lists(n) == UNION {[1..k -> DepEntries] : k \in 0..n}

\* what yaml.safe_load can give for a file that parses
YamlValues ==
    {NoneValue, IntValue, StrValue(<<"x">>), StrValue(Dependencies),
     ListValue(<<Str(<<"a">>)>>), ListValue(<<Str(Dependencies)>>),
     DictValue, DictWith(NoneValue), DictWith(IntValue), DictWith(StrValue(<<"a", "=">>))}
       \cup {DictWith(ListValue(l)) : l \in dep_lists(MaxDeps)}

\* what is at a path: a file that cannot be read, one that is not YAML,
\* one that parses
FileStates ==
    {[readable |-> FALSE, parses |-> FALSE, yaml |-> NoneValue],
     [readable |-> TRUE, parses |-> FALSE, yaml |-> NoneValue]}
       \cup {[readable |-> TRUE, parses |-> TRUE, yaml |-> v] : v \in YamlValues}

\* the command lines: no argument, an input file, an input and an output
ScriptName == <<"s", "t", "r", "i", "p", "_", "y", "m", "l", ".", "p", "y">>

InputNames == {<<"e", ".", "y", "m", "l">>, <<"e", ".", "y", "a", "m", "l">>}

OutputName == <<"o", ".", "y", "m", "l">>

StripInit ==
    /\ strip_pc = "start"
    /\ argv \in {<<ScriptName>>}
                 \cup {<<ScriptName, i>> : i \in InputNames}
                 \cup {<<ScriptName, i, OutputName>> : i \in InputNames}
    /\ \E present \in SUBSET {argv[k] : k \in (DOMAIN argv) \ {1, 3}} :
          fs \in [present -> FileStates]
    /\ writable \in {"ok", "PermissionError", "FileNotFoundError"}
    /\ stdout = <<>>
    /\ exit_code = -1
    /\ written = <<>>
    /\ CatIdle
    /\ ScaleIdle
    /\ MainIdle
    /\ GridIdle
    /\ EnvIdle
    /\ CoordIdle

SpecStrip == StripInit /\ [][StripNext]_vars

(***************************************************************************)
(* A workflow script from its first statement to setup_environment         *)
(***************************************************************************)
\* the modules the scripts import at the top, in the order of the import
\* statements (Stereo-seq lines 6-30, VisiumHD lines 6-32)
imports(name) ==
    <<"argparse", "os", "gc", "tempfile", "shutil", "warnings",
      "itertools", "math", "typing", "concurrent.futures",
      "multiprocessing", "numpy", "pandas", "scanpy", "squidpy",
      "matplotlib", "matplotlib.pyplot", "PIL", "joblib", "scipy.stats">>
      \o (IF name = "VisiumHD" THEN <<"celltypist", "celltypist.models">> ELSE <<>>)
      \o <<"SPIX", "SPIX.image_processing.image_cache", "anndata">>

\* the imported modules that are numeric libraries or load one (numpy and
\* the BLAS and OpenMP runtimes, which read the thread-count variables
\* when they are loaded)
NumericLibraries ==
    {"numpy", "pandas", "scanpy", "squidpy", "matplotlib", "matplotlib.pyplot",
     "scipy.stats", "celltypist", "celltypist.models", "SPIX",
     "SPIX.image_processing.image_cache", "anndata"}

ThreadVariables ==
    {"OMP_NUM_THREADS", "OPENBLAS_NUM_THREADS", "MKL_NUM_THREADS", "NUMEXPR_NUM_THREADS"}

\* setup_environment(omp_threads, openblas_threads, mkl_threads,
\* numexpr_threads): os.environ after it
setup_environment(environ, omp_threads, openblas_threads, mkl_threads, numexpr_threads) ==
    [v \in ThreadVariables |->
        CASE v = "OMP_NUM_THREADS" -> int_str(omp_threads)
          [] v = "OPENBLAS_NUM_THREADS" -> int_str(openblas_threads)
          [] v = "MKL_NUM_THREADS" -> int_str(mkl_threads)
          [] v = "NUMEXPR_NUM_THREADS" -> int_str(numexpr_threads)] @@ environ

\* the next import statement at the top of the script
Import ==
    /\ script # "none"
    /\ load_pc < Len(imports(script))
    /\ LET module == imports(script)[load_pc + 1]
       IN  /\ sys_modules' = sys_modules \cup {module}
           /\ env_at_import' = (module :> os_environ) @@ env_at_import
    /\ load_pc' = load_pc + 1
    /\ UNCHANGED <<script, thread_args, os_environ>>
    /\ UNCHANGED <<catVars, scaleVars, mainVars, gridVars, stripVars, coordVars>>

\* main(), called at the end of the script: args = parser.parse_args()
ParseArgs ==
    /\ script # "none"
    /\ load_pc = Len(imports(script))
    /\ load_pc' = load_pc + 1
    /\ UNCHANGED <<script, thread_args, os_environ, sys_modules, env_at_import>>
    /\ UNCHANGED <<catVars, scaleVars, mainVars, gridVars, stripVars, coordVars>>

\* setup_environment(args.omp_threads, args.openblas_threads,
\*                   args.mkl_threads, args.numexpr_threads)
SetupEnvironment ==
    /\ script # "none"
    /\ load_pc = Len(imports(script)) + 1
    /\ os_environ' = setup_environment(os_environ, thread_args.omp_threads,
                                       thread_args.openblas_threads,
                                       thread_args.mkl_threads,
                                       thread_args.numexpr_threads)
    /\ load_pc' = load_pc + 1
    /\ UNCHANGED <<script, thread_args, sys_modules, env_at_import>>
    /\ UNCHANGED <<catVars, scaleVars, mainVars, gridVars, stripVars, coordVars>>

EnvNext == Import \/ ParseArgs \/ SetupEnvironment

\* the thread counts of the runs: the default 64 (line 279) and 1
ThreadCounts == {1, 64}

\* a script is started with the thread-count variables unset, or all set
\* by the shell to "8"
EnvInit ==
    /\ script \in {"Stereo_seq", "VisiumHD"}
    /\ load_pc = 0
    /\ thread_args \in [omp_threads : ThreadCounts, openblas_threads : ThreadCounts,
                         mkl_threads : ThreadCounts, numexpr_threads : ThreadCounts]
    /\ os_environ \in {<<>>, [v \in ThreadVariables |-> <<"8">>]}
    /\ sys_modules = {}
    /\ env_at_import = <<>>
    /\ CatIdle
    /\ ScaleIdle
    /\ MainIdle
    /\ GridIdle
    /\ StripIdle
    /\ CoordIdle

SpecEnv == EnvInit /\ [][EnvNext]_vars

\* environ has the thread-count variables as the command line asks
threads_set(environ) ==
    /\ ThreadVariables \subseteq DOMAIN environ
    /\ environ["OMP_NUM_THREADS"] = int_str(thread_args.omp_threads)
    /\ environ["OPENBLAS_NUM_THREADS"] = int_str(thread_args.openblas_threads)
    /\ environ["MKL_NUM_THREADS"] = int_str(thread_args.mkl_threads)
    /\ environ["NUMEXPR_NUM_THREADS"] = int_str(thread_args.numexpr_threads)

\* C17 (as claimed): every numeric library a workflow script has imported
\* was imported with the four thread-count variables already set from the
\* command line.
C17_ThreadsSetBeforeImport ==
    \A m \in sys_modules \cap NumericLibraries : threads_set(env_at_import[m])

(***************************************************************************)
(* Properties of strip_yml.py                                              *)
(***************************************************************************)
\* the utility was given an input file that parsed to a mapping with a list
\* of dependencies, and wrote the cleaned file
cleaned_a_list ==
    /\ strip_pc = "exited"
    /\ exit_code = 0
    /\ fs[argv[2]].yaml.type = "dict"
    /\ fs[argv[2]].yaml.has_dependencies
    /\ fs[argv[2]].yaml.dependencies.type = "list"

\* the dependency entries read, and those written
deps_read == fs[argv[2]].yaml.dependencies.items

deps_written ==
    (CHOOSE env \in {written[p] : p \in DOMAIN written} : TRUE).dependencies.items

\* the places of '=' in a text
equals_signs(text) == {i \in DOMAIN text : text[i] = "="}

\* the place of the second '=' of a text that has two
second_equals(text) ==
    CHOOSE i \in equals_signs(text) :
       Cardinality({j \in equals_signs(text) : j < i}) = 1

\* C15: the cleaned file has as many dependency entries as the input, in
\* the same order; a str entry with two or more '=' (three or more parts) is
\* cut before its second '=', which leaves name=version; every other str
\* entry and every entry that is not a str is unchanged.
C15_StripBuildStrings ==
    cleaned_a_list =>
        /\ Cardinality(DOMAIN written) = 1
        /\ Len(deps_written) = Len(deps_read)
        /\ \A i \in DOMAIN deps_read :
              IF deps_read[i].str /\ Cardinality(equals_signs(deps_read[i].text)) >= 2
              THEN /\ deps_written[i].str
                   /\ deps_written[i].text =
                         SubSeq(deps_read[i].text, 1, second_equals(deps_read[i].text) - 1)
              ELSE deps_written[i] = deps_read[i]

\* a=1=b and the pip section were read: a=1 and the pip section are written
C15_Witness ==
    /\ cleaned_a_list
    /\ deps_read = <<Str(<<"a", "=", "1", "=", "b">>), PipSection>>
    /\ deps_written = <<Str(<<"a", "=", "1">>), PipSection>>

\* the input file argument is missing, or names a file that is missing,
\* cannot be read, is not YAML, or is not an environment: not a mapping, or
\* a mapping whose dependencies are not a list
bad_input ==
    \/ Len(argv) < 2
    \/ argv[2] \notin DOMAIN fs
    \/ ~fs[argv[2]].readable
    \/ ~fs[argv[2]].parses
    \/ fs[argv[2]].yaml.type # "dict"
    \/ /\ fs[argv[2]].yaml.has_dependencies
       /\ fs[argv[2]].yaml.dependencies.type # "list"

\* C16 (as claimed): on a missing input argument and on a missing or bad
\* input file the utility prints its usage and exits with code 1, never 0.
C16_BadInputUsageExitOne ==
    (strip_pc = "exited" /\ bad_input) =>
        /\ exit_code = 1
        /\ \E i \in DOMAIN stdout : stdout[i] = "Usage"

(***************************************************************************)
(* Properties of the render batch                                          *)
(***************************************************************************)
\* gene k of the call's list is not among the dataset's gene names
absent(k) == ~adata_global.none /\ genes[k] \notin adata_global.var_names

\* the cells of the canvas that show the tile at path p
cells_showing(p) ==
    {rc \in DOMAIN canvas.axes : canvas.axes[rc].shown /\ canvas.axes[rc].path = p}

\* C11: the worker of a gene that is absent from the dataset's gene names
\* never raises; once it has ended, the placeholder tile is at that gene's
\* tile path; a batch of absent genes only is never aborted; and the grid
\* of a call that returned shows exactly one tile for every listed gene.
C11_AbsentGenePlaceholder ==
    /\ \A k \in DOMAIN futures :
          absent(k) =>
             /\ futures[k] # "raised"
             /\ futures[k] = "done" =>
                   /\ ordered_tiles[k] \in DOMAIN disk
                   /\ disk[ordered_tiles[k]] = Placeholder
    /\ (futures # <<>> /\ \A k \in DOMAIN futures : absent(k)) =>
          grid_pc \notin {"shutdown", "raised"}
    /\ (grid_pc = "done" /\ genes # <<>>) =>
          /\ Len(existing_tiles) = Len(genes)
          /\ \A k \in DOMAIN genes : Cardinality(cells_showing(ordered_tiles[k])) = 1

\* a grid of two tiles, the first the placeholder of an absent gene
C11_Witness ==
    /\ grid_pc = "done"
    /\ Len(genes) = 2
    /\ absent(1)
    /\ ~absent(2)
    /\ grid_cols = 2
    /\ canvas.axes[<<0, 0>>].img = Placeholder
    /\ canvas.axes[<<0, 1>>].img = Plot

\* C12: whatever the order in which the workers completed, the tiles handed
\* to grid assembly are in the order of the gene list: the k-th tile is the
\* file the worker of the k-th gene wrote.
C12_TilesInGeneOrder ==
    (grid_pc \in {"assemble", "done"} /\ genes # <<>>) =>
        /\ Len(existing_tiles) = Len(genes)
        /\ \A k \in DOMAIN genes :
              /\ existing_tiles[k] \in DOMAIN writers
              /\ <<call, k>> \in writers[existing_tiles[k]]

\* the worker of the second gene completed first, and the grid is assembled
C12_Witness ==
    /\ grid_pc = "done"
    /\ collected = <<2, 1>>
    /\ grid_cols = 2
    /\ canvas.axes[<<0, 0>>].path = ordered_tiles[1]

\* the tile path of gene i of main's call n
path_of_worker(n, i) ==
    tile_path(tmp_dir(OutDir, group_of_call(n, top_k)), gene_lists[n][i])

\* the workers of main's two calls
all_workers == {w \in {1, 2} \X (1..MaxList + 1) : w[2] \in DOMAIN gene_lists[w[1]]}

\* C18: no file is written by two render workers, within a call or across
\* main's two calls, and at the entry of each call the tile paths of any
\* two workers of the two calls differ.
C18_UniqueTilePaths ==
    /\ \A p \in DOMAIN writers : Cardinality(writers[p]) <= 1
    /\ grid_pc = "call" =>
          \A v, w \in all_workers :
             v # w => path_of_worker(v[1], v[2]) # path_of_worker(w[1], w[2])

\* both calls rendered the same two genes, in different orders: four files
C18_Witness ==
    /\ call = 2
    /\ grid_pc = "done"
    /\ Len(gene_lists[1]) = 2
    /\ gene_lists[2] = <<gene_lists[1][2], gene_lists[1][1]>>
    /\ Cardinality(DOMAIN writers) = 4

\* C19: while the tiles are filtered and the grid is assembled, and after,
\* there is one future per gene and no worker of the batch is pending or
\* running.
C19_AssembleAfterAllWorkers ==
    grid_pc \in {"filter", "assemble", "done", "error"} =>
        /\ Len(futures) = Len(genes)
        /\ \A k \in DOMAIN futures : futures[k] \notin {"pending", "running"}

\* assembly of a batch of two whose workers ran one after the other
C19_Witness ==
    /\ grid_pc = "assemble"
    /\ Len(futures) = 2
    /\ max_workers = 1
    /\ Len(existing_tiles) = 2

\* a render worker of the batch has raised
render_raised == \E k \in DOMAIN futures : futures[k] = "raised"

\* C20: once a render worker of a batch has raised, the call never gets to
\* filter or assemble and never returns: it is rendering, shutting the pool
\* down, or has passed the error to its caller, no grid is drawn, main
\* makes no further call, and the worker that raised is not run again.
C20_RenderErrorAbortsBatch ==
    /\ [](render_raised =>
            /\ grid_pc \in {"render", "shutdown", "raised"}
            /\ existing_tiles = <<>>
            /\ canvas = NoCanvas)
    /\ [][render_raised => (call' = call /\ \A k \in DOMAIN futures :
                                futures[k] = "raised" => futures'[k] = "raised")]_vars

\* the error reached the caller although the other worker wrote its tile
C20_Witness ==
    /\ grid_pc = "raised"
    /\ futures = <<"raised", "done">>
    /\ ordered_tiles[2] \in DOMAIN disk
    /\ canvas = NoCanvas

(***************************************************************************)
(* Properties of grid assembly                                             *)
(***************************************************************************)
\* the cells of the canvas that show no image
empty_cells == {rc \in DOMAIN canvas.axes : ~canvas.axes[rc].shown}

\* C9: for n >= 1 tiles and cols >= 1 the canvas has ceil(n / cols) rows
\* and cols columns, tile i (from 0) is at row i div cols and column
\* i mod cols, and exactly rows * cols - n cells are empty, whatever the
\* sizes of the tile images; 7 tiles on 5 columns give 2 rows and 3 empty
\* cells.
C9_GridLayout ==
    (grid_pc = "done" /\ Len(existing_tiles) >= 1) =>
        LET n == Len(existing_tiles) IN
        /\ canvas.cols = grid_cols
        /\ canvas.rows * grid_cols >= n
        /\ (canvas.rows - 1) * grid_cols < n
        /\ DOMAIN canvas.axes = (0..(canvas.rows - 1)) \X (0..(grid_cols - 1))
        /\ \A i \in 0..(n - 1) :
              /\ canvas.axes[<<i \div grid_cols, i % grid_cols>>].shown
              /\ canvas.axes[<<i \div grid_cols, i % grid_cols>>].path = existing_tiles[i + 1]
        /\ Cardinality(empty_cells) = canvas.rows * grid_cols - n
        /\ (n = 7 /\ grid_cols = 5) => (canvas.rows = 2 /\ Cardinality(empty_cells) = 3)

C9_Witness ==
    /\ grid_pc = "done"
    /\ Len(existing_tiles) = 7
    /\ grid_cols = 5
    /\ canvas.rows = 2
    /\ Cardinality(empty_cells) = 3
    /\ canvas.axes[<<1, 1>>].shown
    /\ canvas.axes[<<1, 1>>].img = [w |-> 2, h |-> 1]
    /\ canvas.axes[<<0, 0>>].img = [w |-> 1, h |-> 1]

\* the places in ordered_tiles whose file is on disk
present == {k \in 1..Len(ordered_tiles) : ordered_tiles[k] \in DOMAIN disk}

\* the cell with number i, counting left to right, top to bottom from 0
cell_number(i) == <<i \div grid_cols, i % grid_cols>>

\* C10: assembly does not fail on tiles that are not on disk; the tiles on
\* disk keep their order and fill consecutive cells from the first cell on,
\* with no blank cell left for a missing tile: with the 3rd of 5 tiles
\* missing, tiles 1, 2, 4, 5 are in the first four cells.
C10_MissingTilesCompacted ==
    /\ grid_pc # "error"
    /\ grid_pc = "done" =>
          /\ \A k \in present :
                LET before == Cardinality({j \in present : j < k})
                IN  /\ canvas.axes[cell_number(before)].shown
                    /\ canvas.axes[cell_number(before)].path = ordered_tiles[k]
          /\ Cardinality(DOMAIN canvas.axes \ empty_cells) = Cardinality(present)
          /\ (Len(ordered_tiles) = 5 /\ present = {1, 2, 4, 5}) =>
                /\ canvas.axes[cell_number(0)].path = ordered_tiles[1]
                /\ canvas.axes[cell_number(1)].path = ordered_tiles[2]
                /\ canvas.axes[cell_number(2)].path = ordered_tiles[4]
                /\ canvas.axes[cell_number(3)].path = ordered_tiles[5]

C10_Witness ==
    /\ grid_pc = "done"
    /\ Len(ordered_tiles) = 5
    /\ present = {1, 2, 4, 5}
    /\ grid_cols = 5
    /\ canvas.axes[<<0, 2>>].path = ordered_tiles[4]
    /\ ~canvas.axes[<<0, 4>>].shown


\* ---------------------------------------------------------------------
\* transform_coordinates (lines 44-58)

\* the largest number of spots, and the largest coordinate, of the tables
MaxRows == 2

MaxCoord == 2

\* arr[:, k]: column k (0 or 1) of a table of rows
column(arr, k) == [i \in DOMAIN arr |-> arr[i][k + 1]]

\* arr[:, k] = v
set_column(arr, k, v) == [i \in DOMAIN arr |-> [arr[i] EXCEPT ![k + 1] = v[i]]]

\* a.max() of a non-empty array
array_max(a) == CHOOSE m \in Range(a) : \A i \in DOMAIN a : a[i] <= m

\* coords[:, k] = coords[:, k].max() - coords[:, k]
flip(arr, k) ==
    set_column(arr, k, [i \in DOMAIN arr |-> array_max(column(arr, k)) - arr[i][k + 1]])

transform_coordinates_no_swap(t) ==
    IF t = <<>>
    THEN [raised |-> TRUE, value |-> t]
    ELSE [raised |-> FALSE, value |-> flip(flip(t, 1), 0)]

\* lines 46-58; numpy's max raises ValueError for an array of size 0
transform_coordinates(t) ==
    IF t = <<>>
    THEN [raised |-> TRUE, value |-> t]
    ELSE LET y == column(t, 0)
             x == column(t, 1)
             swapped == set_column(set_column(t, 0, x), 1, y)
             flipped_1 == flip(swapped, 1)
             flipped_0 == flip(flipped_1, 0)
         IN  [raised |-> FALSE, value |-> flipped_0]

\* line 354: adata = transform_coordinates(adata)
TransformCoordinates ==
    /\ coord_pc = "start"
    /\ LET out == transform_coordinates(spatial)
       IN  /\ coord_pc' = IF out.raised THEN "raised" ELSE "done"
           /\ spatial' = out.value
    /\ UNCHANGED spatial_in
    /\ UNCHANGED <<catVars, scaleVars, mainVars, gridVars, stripVars, envVars>>

CoordNext == TransformCoordinates

CoordValues == (0 - 1)..MaxCoord

\* the coordinate tables of 0..MaxRows spots, negative coordinates included
CoordInit ==
    /\ coord_pc = "start"
    /\ spatial_in \in UNION {[1..n -> [1..2 -> CoordValues]] : n \in 0..MaxRows}
    /\ spatial = spatial_in
    /\ CatIdle
    /\ ScaleIdle
    /\ MainIdle
    /\ GridIdle
    /\ StripIdle
    /\ EnvIdle

SpecCoords == CoordInit /\ [][CoordNext]_vars

\* the tasks whose calc_scale has returned
returned_tasks == {i \in 1..started : i \notin running /\ ~results[i].raised}

\* C21: no parallel worker mutates the caller's dataset: each calc_scale
\* segments its own copy (a copy of the passed dataset, or the dataset loaded
\* from the temporary file), so during and after the sweep the caller's
\* dataset still carries main's segmentation and is what the sweep was given,
\* while each returned worker's dataset carries that worker's scale
C21_CallerDatasetUntouched ==
    /\ adata.segment = MainSegment
    /\ adata = [var_names |-> 1..NumGenes, i_vals |-> {1}, segment |-> MainSegment]
    /\ \A i \in returned_tasks :
          /\ worker_ad[i] # NoAd
          /\ worker_ad[i].segment = scale_id(param_grid[i].r, param_grid[i].c)
          /\ worker_ad[i].segment # adata.segment
          /\ worker_ad[i].var_names = adata.var_names
          /\ worker_ad[i].i_vals = adata.i_vals

C21_Witness ==
    /\ pc = "concat"
    /\ use_memmap
    /\ n_jobs = MaxJobs
    /\ Cardinality(returned_tasks) = Len(param_grid)
    /\ Len(param_grid) >= 2
    /\ worker_ad[1].segment # worker_ad[2].segment
    /\ adata.segment = MainSegment

\* C26: with use_memmap set, the temporary directory exists whenever a sweep
\* worker is running, and is gone once the sweep step has ended, both when
\* the sweep returned its results and when a worker raised
C26_TempDirLifetime ==
    use_memmap =>
        /\ (running # {} => td = "exists" /\ h5ad # NoFile)
        /\ (pc \notin {"memmap", "sweep"} => td = "removed" /\ h5ad = NoFile)

\* every scale of the sweep returned an empty table
all_scales_empty ==
    /\ sweep_over
    /\ ~worker_raised
    /\ \A i \in DOMAIN results : moran_rows[i] = 0 /\ empty(results[i].value)

\* C22: when every scale yields an empty result, so that no non-empty rank
\* table is left to concatenate, the run is at the concatenation or has
\* ended there with the ValueError of pd.concat; no table is built, no
\* gene is categorized and no grid is rendered
C22_NothingToConcatenate ==
    all_scales_empty =>
        /\ rank_tables = <<>>
        /\ pc \in {"concat", "error"}
        /\ (pc = "error" => error = "ValueError")
        /\ nothing_built
        /\ GridIdle
        /\ CatIdle

C22_Witness ==
    /\ all_scales_empty
    /\ Len(param_grid) >= 2
    /\ pc = "error"
    /\ error = "ValueError"

\* the non-empty lists of distinct columns of a table
column_lists(t) ==
    {cs \in UNION {[1..k -> Range(t.columns)] : k \in 1..Len(t.columns)} :
        \A i, j \in DOMAIN cs : i # j => cs[i] # cs[j]}

\* a fraction that is at least 1
at_least_one(q) == q.d > 0 /\ q.n >= q.d

\* C27: when the rank table has been filled, the sentinel max_rank + 1 is
\* strictly greater than every rank any scale produced and every cell of
\* the table is at least 1 (the table's cells do not change afterwards);
\* so every per-resolution mean is at least 1, and the mean over any list
\* of per-resolution columns (a band mean) is at least 1, which makes the
\* second-smallest band mean, the divisor of categorize_with_threshold,
\* different from 0
C27_RanksAtLeastOne ==
    /\ pc = "sort" =>
          LET sentinel == max_rank + 1
          IN  /\ \A i \in {j \in DOMAIN results : ~empty(results[j].value)} :
                    \A g \in DOMAIN ranks_of_task(i) :
                       ranks_of_task(i)[g] >= 1 /\ ranks_of_task(i)[g] < sentinel
              /\ \A c \in Range(rank_mat.columns) :
                    \A g \in rank_mat.index :
                       rank_mat.data[c][g] >= 1 /\ rank_mat.data[c][g] <= sentinel
    /\ pc = "comp_rank" =>
          \A c \in Range(res_rank.columns) :
             \A g \in res_rank.index : at_least_one(res_rank.data[c][g])
    /\ pc = "bands" =>
          \A cs \in column_lists(res_rank) :
             \A g \in res_rank.index :
                at_least_one(row_rmeans(res_rank, cs)[g])
    /\ \A c \in {mean_early_col, mean_mid_col, mean_late_col} \cap DOMAIN df.data :
          \A g \in df.index : at_least_one(df.data[c][g])

C27_Witness ==
    /\ pc = "bands"
    /\ Len(res_rank.columns) = 3
    /\ \E g \in rank_mat.index : \E c \in Range(rank_mat.columns) :
          rank_mat.data[c][g] = max_rank + 1 /\ max_rank >= 2
    /\ \E g \in res_rank.index : \E c \in Range(res_rank.columns) :
          res_rank.data[c][g].n > res_rank.data[c][g].d
    /\ \A cs \in column_lists(res_rank) :
          \A g \in res_rank.index : row_rmeans(res_rank, cs)[g].n > 0

\* C25: when strip_build_strings is called without an output file, the
\* cleaned file is written to a path different from the input path, so the
\* input environment file is never overwritten, whatever the input file
\* is called
C25_InputNeverOverwritten ==
    (strip_pc = "exited" /\ Len(argv) = 2 /\ exit_code = 0) =>
        /\ DOMAIN written = {output_path(argv[2], None)}
        /\ argv[2] \notin DOMAIN written

\* C24: transform_coordinates swaps the two columns and then flips both
\* axes: with old columns (a, b), every row's new column 0 is max(b) - b
\* and its new column 1 is max(a) - a; the number of rows is unchanged and
\* every resulting coordinate is >= 0, with minimum 0 in each column
C24_SwapThenFlipBoth ==
    coord_pc = "done" =>
        LET a == column(spatial_in, 0)
            b == column(spatial_in, 1)
        IN  /\ Len(spatial) = Len(spatial_in)
            /\ \A i \in DOMAIN spatial :
                  /\ spatial[i][1] = array_max(b) - b[i]
                  /\ spatial[i][2] = array_max(a) - a[i]
                  /\ spatial[i][1] >= 0
                  /\ spatial[i][2] >= 0
            /\ \E i \in DOMAIN spatial : spatial[i][1] = 0
            /\ \E i \in DOMAIN spatial : spatial[i][2] = 0

C24_Witness ==
    /\ coord_pc = "done"
    /\ spatial_in = <<(1 :> 0 @@ 2 :> 2), (1 :> 1 @@ 2 :> (0 - 1))>>
    /\ spatial = <<(1 :> 0 @@ 2 :> 1), (1 :> 3 @@ 2 :> 0)>>

\* build_grid_for_group_parallel was entered with an empty gene list and
\* is past its first statement
empty_call == genes = <<>> /\ call \in {1, 2} /\ grid_pc # "call"

\* C28: with an empty gene list build_grid_for_group_parallel returns at
\* once: it makes neither the tile directory nor (when no earlier call
\* made it) the output directory, no tile and no grid file, it starts no
\* worker, and main goes on to its next step
C28_EmptyListReturnsAtOnce ==
    empty_call =>
        /\ grid_pc \in {"done", "completed"}
        /\ futures = <<>>
        /\ collected = <<>>
        /\ ordered_tiles = <<>>
        /\ canvas = NoCanvas
        /\ tmp_dir(OutDir, group_name) \notin dirs
        /\ grid_path(OutDir, group_name) \notin DOMAIN grid_files
        /\ \A p \in DOMAIN disk : ~inside(p, tmp_dir(OutDir, group_name))
        /\ \A p \in DOMAIN writers : \A w \in writers[p] : w[1] # call
        /\ (\A n \in 1..call : gene_lists[n] = <<>>) =>
               dirs = {} /\ disk = <<>> /\ grid_files = <<>> /\ writers = <<>>
        /\ (grid_pc = "done" /\ call = 1) => ENABLED SecondCall
        /\ (grid_pc = "done" /\ call = 2) => ENABLED PipelineCompleted

C28_Witness ==
    /\ empty_call
    /\ call = 2
    /\ grid_pc = "completed"
    /\ gene_lists = <<<<>>, <<>>>>
    /\ dirs = {}
    /\ disk = <<>>

==============================================================================
